---- MODULE Spec2Model ----
(***************************************************************************)
(* A model of the banking system of src/banking_system_components:         *)
(* Transaction (transaction.py), Account (account.py), Bank (bank.py) and  *)
(* the accounts.csv mirror both classes write.                             *)
(*                                                                         *)
(* Money is a whole number of units of 0.002 (a fifth of a cent), so that  *)
(* sub-cent amounts exist and the two renderings the code uses for a       *)
(* balance, f"{balance:.2f}" and str(balance), differ.  Arithmetic on the  *)
(* units is exact: the binary rounding noise of Python floats is not       *)
(* modelled.  Ids (uuid4) are modelled as fresh numbers.                   *)
(***************************************************************************)
EXTENDS Integers, Sequences, FiniteSets, TLC

VARIABLES
    objs,      \* every Account object constructed so far: account_id -> fields
    accounts,  \* Bank.accounts: the ids of the mapping, in insertion order
    mirror,    \* the file accounts.csv
    nextId,    \* the next account id uuid4 hands out
    nextTxn,   \* the next transaction id uuid4 hands out
    nOps,      \* how many calls have passed their validation and acted
    nUpdates,  \* how many of them were update_info calls
    last       \* the last call made and how it ended: [op, err]

vars == <<objs, accounts, mirror, nextId, nextTxn, nOps, nUpdates, last>>

----------------------------------------------------------------------------
(* Bounds of the model. *)

MaxAccounts == 2    \* Account objects constructed in one behaviour
MaxOps == 3         \* calls that pass their validation in one behaviour
MaxUpdates == 1     \* update_info calls in one behaviour

(* The inputs callers pass. *)

None == <<>>
Some(v) == <<v>>
IsNone(o) == o = <<>>
Val(o) == o[1]

\* Amounts of money, in units: a negative one, zero, and 0.10.
Amounts == {-3, 0, 50}

\* Kinds a caller may filter a log by: the four the code writes, and one
\* that differs from them by case only.
TransactionTypes == {"Deposit", "Withdrawal", "Transfer In", "Transfer Out", "deposit"}

\* calculate_interest requests.  The annual rates are multiples of 12, so
\* that the monthly rate and the interest are whole numbers of units.
AnnualRates == {0, 12}
MonthCounts == {0, 1}

\* create_account requests: first_name, last_name, age, state, job,
\* account_type, initial_balance.
CreateRequests ==
    { <<"John", "Doe", 30, "California", "Employed", "Checking", 50>>,
      <<"Bob", "Brown", 50, "Florida", "Employed", "Savings", -3>>,
      <<"Alice", "Smith", 28, "Texas", "Unemployed", "Savings", 0>>,
      <<"Eve", "Davis", 45, "Washington", "Employed", "Gold", 50>> }

\* update_info requests: first_name, last_name, age, state, job, each
\* optional.
NoInfo == <<None, None, None, None, None>>
InfoRequests ==
    { NoInfo,
      <<None, None, Some(0), None, Some("Retired")>>,
      <<Some("Robert"), Some("Brownie"), Some(55), Some("Georgia"), None>> }

Ids == 1..(MaxAccounts + 1)   \* ids a caller may name; the last is never issued

----------------------------------------------------------------------------
(* Rendering of a balance as CSV text.  A decimal text is its sign, its    *)
(* magnitude in thousandths and the number of decimal places it shows.     *)

Abs(n) == IF n < 0 THEN -n ELSE n

\* f"{balance:.2f}": rounded to the cent (5 units), two places.
Format2f(balance) ==
    [neg |-> balance < 0,
     thousandths |-> ((Abs(balance) + 2) \div 5) * 10,
     places |-> 2]

\* str(balance) of a float: the shortest text, at least one place.
StrFloat(balance) ==
    [neg |-> balance < 0,
     thousandths |-> Abs(balance) * 2,
     places |-> IF Abs(balance) % 5 # 0 THEN 3
                ELSE IF Abs(balance) % 50 # 0 THEN 2
                ELSE 1]

----------------------------------------------------------------------------
(* transaction.py *)

Transaction(transaction_type, amount, target_account, id) ==
    [transaction_type |-> transaction_type,
     amount |-> amount,
     target_account |-> target_account,
     transaction_id |-> id]

\* Transaction.to_dict
ToDict(t) ==
    [type |-> t.transaction_type,
     amount |-> t.amount,
     target_account |-> t.target_account,
     transaction_id |-> t.transaction_id]

----------------------------------------------------------------------------
(* Faulty variants of the operations below.  Each property of this module  *)
(* that holds is also run against one of them, and must then fail.         *)

\* A check that lets an amount of zero through.
InvalidAmountNegativeOnly(amount) == amount < 0

\* An update that takes a falsy value ("" or 0) for a value not supplied.
ApplyInfoTruthy(self, first_name, last_name, age, state, job) ==
    LET Text(o, old) == IF IsNone(o) THEN old ELSE IF Val(o) = "" THEN old ELSE Val(o)
        Number(o, old) == IF IsNone(o) THEN old ELSE IF Val(o) = 0 THEN old ELSE Val(o)
    IN  [self EXCEPT
            !.first_name = Text(first_name, @),
            !.last_name = Text(last_name, @),
            !.age = Number(age, @),
            !.state = Text(state, @),
            !.job = Text(job, @)]

\* A withdrawal that is not logged.
ApplyWithdrawUnlogged(self, amount, tid) ==
    [self EXCEPT !.balance = @ - amount]

\* A transfer that logs nothing on the target's side.
ApplyTransferOutOnly(os, a, b, amount, tid) ==
    LET o1 == [os EXCEPT ![a].balance = @ - amount]
        o2 == [o1 EXCEPT ![b].balance = @ + amount]
    IN  [o2 EXCEPT ![a].transactions =
            Append(@, Transaction("Transfer Out", amount, Some(o2[b].account_id), tid))]

\* A transfer that stops after the source's half.
ApplyTransferDebitOnly(os, a, b, amount, tid) ==
    [os EXCEPT ![a].balance = @ - amount,
               ![a].transactions =
                   Append(@, Transaction("Transfer Out", amount, Some(os[b].account_id), tid))]

\* A deposit that is logged as another kind of entry.
ApplyDepositMislogged(self, amount, tid) ==
    [self EXCEPT !.balance = @ + amount,
                 !.transactions = Append(@, Transaction("Withdrawal", amount, None, tid))]

\* A funds check that refuses the whole balance.
InsufficientFundsAtBalance(self, amount) == amount >= self.balance

\* A constructor that takes any account type.
AnyAccountType(account_type) == TRUE

\* A constructor that opens every account with a balance of zero.
NewAccountZeroBalance(id, first_name, last_name, age, state, job, account_type, initial_balance) ==
    [account_id |-> id,
     first_name |-> first_name,
     last_name |-> last_name,
     age |-> age,
     state |-> state,
     job |-> job,
     account_type |-> account_type,
     balance |-> 0,
     transactions |-> <<>>,
     initial_balance |-> 0]

\* A membership test that finds every id.
AnyId(id) == TRUE

\* A lookup that returns the first account of the mapping for every id in it.
GetAccountFirst(accts, os, account_id) ==
    IF \E i \in 1..Len(accts) : accts[i] = account_id
    THEN [err |-> "none", account |-> Some(os[accts[1]])]
    ELSE [err |-> "AccountNotFound", account |-> None]

\* A deletion that empties the mapping.
RemoveAll(seq, id) == <<>>

\* A filter that stops at the first entry it finds.
FilterTransactionsFirst(self, transaction_type) ==
    LET found == SelectSeq(self.transactions, LAMBDA t : t.transaction_type = transaction_type)
    IN  IF found = <<>> THEN <<>> ELSE <<found[1]>>

\* A withdrawal that is logged in front of the entries already there.
ApplyWithdrawPrepended(self, amount, tid) ==
    [self EXCEPT !.balance = @ - amount,
                 !.transactions = <<Transaction("Withdrawal", amount, None, tid)>> \o @]

\* A resync whose failure is swallowed.
OutcomeSwallowed(io) == "none"

\* A load_initial_accounts that makes every account a Checking account.
InitialAccountTypeChecking(i) == "Checking"

\* A transfer whose entries do not name the other account.
ApplyTransferNoCounterparty(os, a, b, amount, tid) ==
    LET o1 == [os EXCEPT ![a].balance = @ - amount]
        o2 == [o1 EXCEPT ![b].balance = @ + amount]
        o3 == [o2 EXCEPT ![a].transactions =
                  Append(@, [transaction_type |-> "Transfer Out", amount |-> amount,
                             target_account |-> <<>>, transaction_id |-> tid])]
    IN  [o3 EXCEPT ![b].transactions =
            Append(@, [transaction_type |-> "Transfer In", amount |-> amount,
                       target_account |-> <<>>, transaction_id |-> tid + 1])]

\* A get_transaction_history that returns the records newest first.
GetTransactionHistoryReversed(self) ==
    [i \in 1..Len(self.transactions) |->
        ToDict(self.transactions[Len(self.transactions) + 1 - i])]

----------------------------------------------------------------------------
(* account.py *)

ValidAccountType(account_type) == account_type \in {"Checking", "Savings"}

\* Account.__init__; initial_balance is kept beside balance as a history
\* field so that the balance invariant can be stated.
NewAccount(id, first_name, last_name, age, state, job, account_type, initial_balance) ==
    [account_id |-> id,
     first_name |-> first_name,
     last_name |-> last_name,
     age |-> age,
     state |-> state,
     job |-> job,
     account_type |-> account_type,
     balance |-> initial_balance,
     transactions |-> <<>>,
     initial_balance |-> initial_balance]

InvalidAmount(amount) == amount <= 0

InsufficientFunds(self, amount) == amount > self.balance

\* Account.update_info, lines 58-67: the assignments.
ApplyInfo(self, first_name, last_name, age, state, job) ==
    [self EXCEPT
        !.first_name = IF IsNone(first_name) THEN @ ELSE Val(first_name),
        !.last_name = IF IsNone(last_name) THEN @ ELSE Val(last_name),
        !.age = IF IsNone(age) THEN @ ELSE Val(age),
        !.state = IF IsNone(state) THEN @ ELSE Val(state),
        !.job = IF IsNone(job) THEN @ ELSE Val(job)]

\* Account.deposit, lines 79-80.
ApplyDeposit(self, amount, tid) ==
    [self EXCEPT !.balance = @ + amount,
                 !.transactions = Append(@, Transaction("Deposit", amount, None, tid))]

\* Account.calculate_interest, lines 122-123 of the revision that has it.
Interest(self, annual_rate, months) ==
    LET monthly_rate == annual_rate \div 12
    IN  self.balance * monthly_rate * months

\* Account.withdraw, lines 97-98.
ApplyWithdraw(self, amount, tid) ==
    [self EXCEPT !.balance = @ - amount,
                 !.transactions = Append(@, Transaction("Withdrawal", amount, None, tid))]

\* Account.transfer, lines 116-121, on the object store: self and
\* target_account may be the same object.
ApplyTransfer(os, a, b, amount, tid) ==
    LET o1 == [os EXCEPT ![a].balance = @ - amount]
        o2 == [o1 EXCEPT ![b].balance = @ + amount]
        o3 == [o2 EXCEPT ![a].transactions =
                  Append(@, Transaction("Transfer Out", amount, Some(o2[b].account_id), tid))]
    IN  [o3 EXCEPT ![b].transactions =
            Append(@, Transaction("Transfer In", amount, Some(o3[a].account_id), tid + 1))]

\* Account.filter_transactions: the list comprehension over the log.
FilterTransactions(self, transaction_type) ==
    SelectSeq(self.transactions, LAMBDA t : t.transaction_type = transaction_type)

\* The row export_balance_update writes for an account that has none.
NewRow(self) ==
    [account_id |-> self.account_id,
     first_name |-> self.first_name,
     last_name |-> self.last_name,
     age |-> self.age,
     state |-> self.state,
     job |-> self.job,
     account_type |-> self.account_type,
     balance |-> Format2f(self.balance)]

NoFile == [exists |-> FALSE, rows |-> <<>>]
File(rows) == [exists |-> TRUE, rows |-> rows]

\* Account.export_balance_update with a sink that works: the file is
\* created if missing, read, and rewritten with the balance of every row of
\* this account replaced; a row is added when there was none.
ExportBalanceUpdate(self, m) ==
    LET reader == m.rows
        updated == \E i \in 1..Len(reader) : reader[i].account_id = self.account_id
        rewritten == [i \in 1..Len(reader) |->
                        IF reader[i].account_id = self.account_id
                        THEN [reader[i] EXCEPT !.balance = Format2f(self.balance)]
                        ELSE reader[i]]
    IN  File(IF updated THEN rewritten ELSE Append(rewritten, NewRow(self)))

----------------------------------------------------------------------------
(* bank.py *)

\* The row Bank.export_accounts_to_csv writes for an account.
BankRow(account) ==
    [account_id |-> account.account_id,
     first_name |-> account.first_name,
     last_name |-> account.last_name,
     age |-> account.age,
     state |-> account.state,
     job |-> account.job,
     account_type |-> account.account_type,
     balance |-> StrFloat(account.balance)]

\* Bank.export_accounts_to_csv: the file is replaced by one row per account
\* of the mapping, in the mapping's order.
ExportAccountsToCsv(accts, os) ==
    File([i \in 1..Len(accts) |-> BankRow(os[accts[i]])])

InBank(id) == \E i \in 1..Len(accounts) : accounts[i] = id

Remove(seq, id) == SelectSeq(seq, LAMBDA x : x # id)

----------------------------------------------------------------------------
(* The sink.  "ok": the write happens.  "open_fails": an open() raises     *)
(* before the file is truncated, the file is as it was.  "write_fails":    *)
(* the file was opened for writing, which truncates it, and a write raises.*)

SinkOutcomes == {"ok", "open_fails", "write_fails"}
Reliable == {"ok"}

Sink(io, m, written) ==
    CASE io = "ok" -> written
      [] io = "open_fails" -> m
      [] io = "write_fails" -> File(<<>>)

Outcome(io) == IF io = "ok" THEN "none" ELSE "PersistenceFailure"

----------------------------------------------------------------------------
Call(op, err) == [op |-> op, err |-> err]

Init ==
    /\ objs = <<>>
    /\ accounts = <<>>
    /\ mirror = NoFile
    /\ nextId = 1
    /\ nextTxn = 1
    /\ nOps = 0
    /\ nUpdates = 0
    /\ last = Call("init", "none")

\* A resync: the sink takes the write or fails, and the call ends with that.
Resync(op, sinks, written) ==
    \E io \in sinks :
        /\ mirror' = Sink(io, mirror, written)
        /\ last' = Call(op, Outcome(io))

\* What a call that passes its validation does to the bound's counter.
Acts == nOps < MaxOps /\ nOps' = nOps + 1

\* Bank.create_account, while fewer than limit accounts were ever made.
CreateAccountUpTo(limit, first_name, last_name, age, state, job, account_type, initial_balance, sinks) ==
    /\ UNCHANGED <<nextTxn, nUpdates>>
    /\ IF ~ValidAccountType(account_type)
       THEN /\ last' = Call("create_account", "InvalidCategory")
            /\ UNCHANGED <<objs, accounts, mirror, nextId, nOps>>
       ELSE LET account == NewAccount(nextId, first_name, last_name, age, state,
                                      job, account_type, initial_balance)
            IN  /\ nextId <= limit
                /\ Acts
                /\ objs' = Append(objs, account)
                /\ accounts' = Append(accounts, account.account_id)
                /\ nextId' = nextId + 1
                /\ Resync("create_account", sinks, ExportAccountsToCsv(accounts', objs'))

\* Bank.create_account
CreateAccount(first_name, last_name, age, state, job, account_type, initial_balance, sinks) ==
    CreateAccountUpTo(MaxAccounts, first_name, last_name, age, state, job,
                      account_type, initial_balance, sinks)

\* Bank.delete_account
DeleteAccount(account_id, sinks) ==
    /\ UNCHANGED <<objs, nextId, nextTxn, nUpdates>>
    /\ IF ~InBank(account_id)
       THEN /\ last' = Call("delete_account", "AccountNotFound")
            /\ UNCHANGED <<accounts, mirror, nOps>>
       ELSE /\ Acts
            /\ accounts' = Remove(accounts, account_id)
            /\ Resync("delete_account", sinks, ExportAccountsToCsv(accounts', objs))

\* Account.update_info
UpdateInfo(a, first_name, last_name, age, state, job, sinks) ==
    /\ a \in DOMAIN objs
    /\ Acts
    /\ nUpdates < MaxUpdates
    /\ nUpdates' = nUpdates + 1
    /\ UNCHANGED <<accounts, nextId, nextTxn>>
    /\ LET self == ApplyInfo(objs[a], first_name, last_name, age, state, job)
       IN  /\ objs' = [objs EXCEPT ![a] = self]
           /\ Resync("update_info", sinks, ExportBalanceUpdate(self, mirror))

\* Account.deposit
Deposit(a, amount, sinks) ==
    /\ a \in DOMAIN objs
    /\ UNCHANGED <<accounts, nextId, nUpdates>>
    /\ IF InvalidAmount(amount)
       THEN /\ last' = Call("deposit", "InvalidAmount")
            /\ UNCHANGED <<objs, mirror, nextTxn, nOps>>
       ELSE /\ Acts
            /\ LET self == ApplyDeposit(objs[a], amount, nextTxn)
               IN  /\ objs' = [objs EXCEPT ![a] = self]
                   /\ Resync("deposit", sinks, ExportBalanceUpdate(self, mirror))
            /\ nextTxn' = nextTxn + 1

\* A faulty calculate_interest, which tests the rate before the account type.
CalculateInterestRateFirst(a, annual_rate, months, sinks) ==
    /\ a \in DOMAIN objs
    /\ UNCHANGED <<accounts, nextId, nUpdates>>
    /\ IF annual_rate <= 0 \/ months <= 0
       THEN /\ last' = Call("calculate_interest", "InvalidRate")
            /\ UNCHANGED <<objs, mirror, nextTxn, nOps>>
       ELSE IF objs[a].account_type # "Savings"
       THEN /\ last' = Call("calculate_interest", "InvalidCategory")
            /\ UNCHANGED <<objs, mirror, nextTxn, nOps>>
       ELSE LET interest == Interest(objs[a], annual_rate, months)
            IN  IF InvalidAmount(interest)
                THEN /\ last' = Call("calculate_interest", "InvalidAmount")
                     /\ UNCHANGED <<objs, mirror, nextTxn, nOps>>
                ELSE /\ Acts
                     /\ LET self == ApplyDeposit(objs[a], interest, nextTxn)
                        IN  /\ objs' = [objs EXCEPT ![a] = self]
                            /\ Resync("calculate_interest", sinks, ExportBalanceUpdate(self, mirror))
                     /\ nextTxn' = nextTxn + 1

\* Account.calculate_interest: the interest is paid in by self.deposit, whose
\* error is the call's error.
CalculateInterest(a, annual_rate, months, sinks) ==
    /\ a \in DOMAIN objs
    /\ UNCHANGED <<accounts, nextId, nUpdates>>
    /\ IF objs[a].account_type # "Savings"
       THEN /\ last' = Call("calculate_interest", "InvalidCategory")
            /\ UNCHANGED <<objs, mirror, nextTxn, nOps>>
       ELSE IF annual_rate <= 0 \/ months <= 0
       THEN /\ last' = Call("calculate_interest", "InvalidRate")
            /\ UNCHANGED <<objs, mirror, nextTxn, nOps>>
       ELSE LET interest == Interest(objs[a], annual_rate, months)
            IN  IF InvalidAmount(interest)
                THEN /\ last' = Call("calculate_interest", "InvalidAmount")
                     /\ UNCHANGED <<objs, mirror, nextTxn, nOps>>
                ELSE /\ Acts
                     /\ LET self == ApplyDeposit(objs[a], interest, nextTxn)
                        IN  /\ objs' = [objs EXCEPT ![a] = self]
                            /\ Resync("calculate_interest", sinks, ExportBalanceUpdate(self, mirror))
                     /\ nextTxn' = nextTxn + 1

\* Account.withdraw
Withdraw(a, amount, sinks) ==
    /\ a \in DOMAIN objs
    /\ UNCHANGED <<accounts, nextId, nUpdates>>
    /\ IF InvalidAmount(amount)
       THEN /\ last' = Call("withdraw", "InvalidAmount")
            /\ UNCHANGED <<objs, mirror, nextTxn, nOps>>
       ELSE IF InsufficientFunds(objs[a], amount)
       THEN /\ last' = Call("withdraw", "InsufficientFunds")
            /\ UNCHANGED <<objs, mirror, nextTxn, nOps>>
       ELSE /\ Acts
            /\ LET self == ApplyWithdraw(objs[a], amount, nextTxn)
               IN  /\ objs' = [objs EXCEPT ![a] = self]
                   /\ Resync("withdraw", sinks, ExportBalanceUpdate(self, mirror))
            /\ nextTxn' = nextTxn + 1

\* Account.transfer: the two resyncs are made in turn, and the second is
\* not reached when the first raises.
Transfer(a, b, amount, sinks) ==
    /\ a \in DOMAIN objs
    /\ b \in DOMAIN objs
    /\ UNCHANGED <<accounts, nextId, nUpdates>>
    /\ IF InvalidAmount(amount)
       THEN /\ last' = Call("transfer", "InvalidAmount")
            /\ UNCHANGED <<objs, mirror, nextTxn, nOps>>
       ELSE IF InsufficientFunds(objs[a], amount)
       THEN /\ last' = Call("transfer", "InsufficientFunds")
            /\ UNCHANGED <<objs, mirror, nextTxn, nOps>>
       ELSE /\ Acts
            /\ objs' = ApplyTransfer(objs, a, b, amount, nextTxn)
            /\ nextTxn' = nextTxn + 2
            /\ \E io1 \in sinks :
                  LET m1 == Sink(io1, mirror, ExportBalanceUpdate(objs'[a], mirror))
                  IN  IF io1 = "ok"
                      THEN \E io2 \in sinks :
                              /\ mirror' = Sink(io2, m1, ExportBalanceUpdate(objs'[b], m1))
                              /\ last' = Call("transfer", Outcome(io2))
                      ELSE /\ mirror' = m1
                           /\ last' = Call("transfer", Outcome(io1))

\* Bank.get_account
GetAccount(accts, os, account_id) ==
    IF \E i \in 1..Len(accts) : accts[i] = account_id
    THEN [err |-> "none", account |-> Some(os[account_id])]
    ELSE [err |-> "AccountNotFound", account |-> None]

\* A call of Bank.get_account by a caller that reads the account it gets:
\* nothing is written.
LookUp(account_id) ==
    /\ last' = Call("get_account", GetAccount(accounts, objs, account_id).err)
    /\ UNCHANGED <<objs, accounts, mirror, nextId, nextTxn, nOps, nUpdates>>

\* A call of Account.filter_transactions: the list it builds is read and
\* dropped.
FilterCall(a, transaction_type) ==
    /\ a \in DOMAIN objs
    /\ last' = Call("filter_transactions", "none")
    /\ UNCHANGED <<objs, accounts, mirror, nextId, nextTxn, nOps, nUpdates>>

----------------------------------------------------------------------------
(* Spec: the callers of command_line_interface.py, which reach an account  *)
(* through Bank.get_account, with a sink that works.                       *)

Create(sinks) ==
    \E r \in CreateRequests : CreateAccount(r[1], r[2], r[3], r[4], r[5], r[6], r[7], sinks)

Delete(sinks) ==
    \E id \in Ids : DeleteAccount(id, sinks)

Update(sinks) ==
    \E a \in Ids, r \in InfoRequests :
        InBank(a) /\ UpdateInfo(a, r[1], r[2], r[3], r[4], r[5], sinks)

DepositMoney(sinks) ==
    \E a \in Ids, amount \in Amounts : InBank(a) /\ Deposit(a, amount, sinks)

Accrue(sinks) ==
    \E a \in Ids, annual_rate \in AnnualRates, months \in MonthCounts :
        InBank(a) /\ CalculateInterest(a, annual_rate, months, sinks)

WithdrawMoney(sinks) ==
    \E a \in Ids, amount \in Amounts : InBank(a) /\ Withdraw(a, amount, sinks)

\* A faulty transfer_money, which debits the source before it looks the
\* target up.
TransferMoneyDebitsFirst(from_account_id, to_account_id, amount, sinks) ==
    IF GetAccount(accounts, objs, from_account_id).err # "none"
    THEN /\ last' = Call("transfer_money", "AccountNotFound")
         /\ UNCHANGED <<objs, accounts, mirror, nextId, nextTxn, nOps, nUpdates>>
    ELSE IF GetAccount(accounts, objs, to_account_id).err # "none"
    THEN /\ objs' = [objs EXCEPT ![from_account_id].balance = @ - amount]
         /\ last' = Call("transfer_money", "AccountNotFound")
         /\ UNCHANGED <<accounts, mirror, nextId, nextTxn, nOps, nUpdates>>
    ELSE Transfer(from_account_id, to_account_id, amount, sinks)

\* BankCLI.transfer_money with its inputs: both accounts are looked up, the
\* source first, before Account.transfer is called, and the error of a
\* lookup is the handler's error.
TransferMoneyOf(from_account_id, to_account_id, amount, sinks) ==
    IF GetAccount(accounts, objs, from_account_id).err # "none"
    THEN /\ last' = Call("transfer_money", GetAccount(accounts, objs, from_account_id).err)
         /\ UNCHANGED <<objs, accounts, mirror, nextId, nextTxn, nOps, nUpdates>>
    ELSE IF GetAccount(accounts, objs, to_account_id).err # "none"
    THEN /\ last' = Call("transfer_money", GetAccount(accounts, objs, to_account_id).err)
         /\ UNCHANGED <<objs, accounts, mirror, nextId, nextTxn, nOps, nUpdates>>
    ELSE Transfer(from_account_id, to_account_id, amount, sinks)

TransferMoney(sinks) ==
    \E a \in Ids, b \in Ids, amount \in Amounts : TransferMoneyOf(a, b, amount, sinks)

ViewAccountDetails ==
    \E id \in Ids : LookUp(id)

FilterHistory ==
    \E a \in Ids, transaction_type \in TransactionTypes :
        InBank(a) /\ FilterCall(a, transaction_type)

Next ==
    \/ Create(Reliable)
    \/ Delete(Reliable)
    \/ Update(Reliable)
    \/ DepositMoney(Reliable)
    \/ Accrue(Reliable)
    \/ WithdrawMoney(Reliable)
    \/ TransferMoney(Reliable)
    \/ ViewAccountDetails

Spec == Init /\ [][Next]_vars

(* SpecIO: the same callers, with a sink that may fail at any resync.  The *)
(* handlers of command_line_interface.py catch ValueError only, so the     *)
(* error of a failed resync ends the menu loop: no call follows it.        *)

Running == last.err # "PersistenceFailure"

NextIO ==
    \/ Running /\ Create(SinkOutcomes)
    \/ Running /\ Delete(SinkOutcomes)
    \/ Running /\ Update(SinkOutcomes)
    \/ Running /\ DepositMoney(SinkOutcomes)
    \/ Running /\ Accrue(SinkOutcomes)
    \/ Running /\ WithdrawMoney(SinkOutcomes)
    \/ Running /\ TransferMoney(SinkOutcomes)
    \/ Running /\ ViewAccountDetails

SpecIO == Init /\ [][NextIO]_vars

----------------------------------------------------------------------------
(* SpecSeeded: callers on the bank as Bank() leaves it:                    *)
(* load_initial_accounts has created its accounts (two of them here, where *)
(* the code creates twenty), the even ones Checking and the odd ones       *)
(* Savings, with balances between 100.00 and 10000.00.                     *)

InitialAccounts ==
    << <<"James", "Smith", 30, "Alabama", "Employed", "Checking", 50000>>,
       <<"Mary", "Johnson", 70, "Alaska", "Retired", "Savings", 100000>> >>

InitSeeded ==
    /\ objs = [i \in 1..Len(InitialAccounts) |->
                  LET r == InitialAccounts[i]
                  IN  NewAccount(i, r[1], r[2], r[3], r[4], r[5], r[6], r[7])]
    /\ accounts = [i \in 1..Len(InitialAccounts) |-> i]
    /\ mirror = ExportAccountsToCsv(accounts, objs)
    /\ nextId = Len(InitialAccounts) + 1
    /\ nextTxn = 1
    /\ nOps = 0
    /\ nUpdates = 0
    /\ last = Call("init", "none")

\* A session of that bank in which money moves between accounts and
\* accounts are closed and looked up.
NextSeeded ==
    \/ Delete(Reliable)
    \/ WithdrawMoney(Reliable)
    \/ TransferMoney(Reliable)
    \/ ViewAccountDetails
    \/ FilterHistory

SpecSeeded == InitSeeded /\ [][NextSeeded]_vars

----------------------------------------------------------------------------
(* SpecUuid: the same callers, where uuid4 may hand out an id it has       *)
(* handed out before.                                                      *)

\* Bank.create_account with the id uuid4 returns as an input: the
\* assignment self.accounts[id] = account rebinds a key that is there, in
\* place, and adds one that is not.
CreateAccountWithId(uuid, first_name, last_name, age, state, job, account_type, initial_balance, sinks) ==
    /\ UNCHANGED <<nextTxn, nUpdates>>
    /\ IF ~ValidAccountType(account_type)
       THEN /\ last' = Call("create_account", "InvalidCategory")
            /\ UNCHANGED <<objs, accounts, mirror, nextId, nOps>>
       ELSE LET account == NewAccount(uuid, first_name, last_name, age, state,
                                      job, account_type, initial_balance)
            IN  /\ uuid <= MaxAccounts
                /\ Acts
                /\ objs' = IF uuid \in DOMAIN objs
                           THEN [objs EXCEPT ![uuid] = account]
                           ELSE Append(objs, account)
                /\ accounts' = IF InBank(uuid) THEN accounts ELSE Append(accounts, uuid)
                /\ nextId' = IF uuid = nextId THEN nextId + 1 ELSE nextId
                /\ Resync("create_account", sinks, ExportAccountsToCsv(accounts', objs'))

CreateAny(sinks) ==
    \E uuid \in 1..nextId, r \in CreateRequests :
        CreateAccountWithId(uuid, r[1], r[2], r[3], r[4], r[5], r[6], r[7], sinks)

NextUuid ==
    \/ CreateAny(Reliable)
    \/ Delete(Reliable)
    \/ Update(Reliable)
    \/ DepositMoney(Reliable)
    \/ Accrue(Reliable)
    \/ WithdrawMoney(Reliable)
    \/ TransferMoney(Reliable)
    \/ ViewAccountDetails

SpecUuid == Init /\ [][NextUuid]_vars

----------------------------------------------------------------------------
(* SpecMenu: the loop of BankCLI.menu on the bank BankCLI() builds.  Each  *)
(* turn reads a choice and runs its handler.  The handlers of choices 1,   *)
(* 2, 3, 7 and 8 catch ValueError and print it; the handler of choice 6    *)
(* calls Bank.create_account outside any try, so what that call raises     *)
(* leaves the handler and the loop.  Choice 12 breaks out of the loop.     *)

\* Choice 12 of BankCLI.menu
Exit ==
    /\ last' = Call("exit", "none")
    /\ UNCHANGED <<objs, accounts, mirror, nextId, nextTxn, nOps, nUpdates>>

\* The loop of BankCLI.menu is at its prompt: it was not left by choice 12
\* nor by an error no handler caught.
InMenu ==
    /\ last.op # "exit"
    /\ ~(last.op = "create_account" /\ last.err # "none")
    /\ Running

NextMenu ==
    \/ InMenu /\ DepositMoney(Reliable)
    \/ InMenu /\ WithdrawMoney(Reliable)
    \/ InMenu /\ TransferMoney(Reliable)
    \/ InMenu /\ Create(Reliable)
    \/ InMenu /\ Delete(Reliable)
    \/ InMenu /\ ViewAccountDetails
    \/ InMenu /\ Exit

SpecMenu == InitSeeded /\ [][NextMenu]_vars

----------------------------------------------------------------------------
(* SpecBank: a Bank from its constructor on.  Bank.__init__ makes the      *)
(* empty mapping and calls load_initial_accounts; BankCLI.__init__ calls   *)
(* it once more.  These are its only callers, so it runs before any other  *)
(* call.  What `random` returns is a function of its seed and of the       *)
(* number of the draw; the seed is the input of the call.                  *)

InitialAccountCount == 20

first_names ==
    <<"James", "Mary", "John", "Patricia", "Robert", "Jennifer", "Michael",
      "Linda", "William", "Elizabeth">>

last_names ==
    <<"Smith", "Johnson", "Williams", "Brown", "Jones", "Garcia", "Miller",
      "Davis", "Rodriguez", "Martinez">>

states ==
    <<"Alabama", "Alaska", "Arizona", "Arkansas", "California", "Colorado",
      "Connecticut", "Delaware", "Florida", "Georgia", "Hawaii", "Idaho",
      "Illinois", "Indiana", "Iowa", "Kansas", "Kentucky", "Louisiana",
      "Maine", "Maryland", "Massachusetts", "Michigan", "Minnesota">>

Seeds == 1..3

\* The k-th draw of iteration i of a generator seeded with seed.
Draw(seed, i, k) == (seed * 7919 + i * 104729 + k * 1299709) % 65521

\* random.choice
Choice(seq, n) == seq[(n % Len(seq)) + 1]

\* random.randint(18, 80)
RandomAge(seed, i) == 18 + (Draw(seed, i, 3) % 63)

\* round(random.uniform(100.0, 10000.0), 2): a whole number of cents from
\* 100.00 to 10000.00, both ends included.  A cent is five units.
RandomBalance(seed, i) ==
    50000 + 5 * (((seed - 1) * 990000 + i * seed * 52105) % 990001)

\* The account type of iteration i of load_initial_accounts.
InitialAccountType(i) == IF i % 2 = 0 THEN "Checking" ELSE "Savings"

\* The arguments iteration i of load_initial_accounts passes to
\* create_account.
InitialRequest(seed, i) ==
    LET age == RandomAge(seed, i)
    IN  << Choice(first_names, Draw(seed, i, 1)),
           Choice(last_names, Draw(seed, i, 2)),
           age,
           Choice(states, Draw(seed, i, 4)),
           IF age > 67 THEN "Retired"
           ELSE Choice(<<"Employed", "Unemployed">>, Draw(seed, i, 5)),
           InitialAccountType(i),
           RandomBalance(seed, i) >>

\* Bank.load_initial_accounts: for i in range(20) one call of
\* create_account, which makes the account, enters it in the mapping and
\* writes the table; every type passed is a valid one, so no call raises.
\* The table is written once more at the end.
LoadInitialAccounts(seed) ==
    /\ Acts
    /\ UNCHANGED <<nextTxn, nUpdates>>
    /\ LET created == [n \in 1..InitialAccountCount |->
                          LET r == InitialRequest(seed, n - 1)
                          IN  NewAccount(nextId + n - 1, r[1], r[2], r[3], r[4],
                                         r[5], r[6], r[7])]
       IN  /\ \A n \in 1..InitialAccountCount : ValidAccountType(created[n].account_type)
           /\ objs' = objs \o created
           /\ accounts' = accounts \o [n \in 1..InitialAccountCount |-> created[n].account_id]
           /\ nextId' = nextId + InitialAccountCount
           /\ mirror' = ExportAccountsToCsv(accounts', objs')
           /\ last' = Call("load_initial_accounts", "none")

\* The calls of load_initial_accounts by the constructors.
Construct ==
    /\ last.op \in {"init", "load_initial_accounts"}
    /\ \E seed \in Seeds : LoadInitialAccounts(seed)

\* Bank.__init__ has returned.
Constructed == Len(objs) >= InitialAccountCount

\* Bank.create_account on the constructed bank: the accounts of the
\* constructors do not count for the bound.
CreateMore(sinks) ==
    \E r \in CreateRequests :
        CreateAccountUpTo(MaxOps * InitialAccountCount + MaxAccounts,
                          r[1], r[2], r[3], r[4], r[5], r[6], r[7], sinks)

NextBank ==
    \/ Construct
    \/ Constructed /\ CreateMore(Reliable)
    \/ Constructed /\ Delete(Reliable)
    \/ Constructed /\ ViewAccountDetails

SpecBank == Init /\ [][NextBank]_vars

----------------------------------------------------------------------------
(* SpecTransfer: Account.transfer of account.py statement by statement, on *)
(* a bank that made two accounts.  While a call is running, last is its    *)
(* frame: the receiver self, the arguments, the line about to be executed, *)
(* and, for reading the call back, the accounts and the mirror as they     *)
(* were when it was made.  The caller is single-threaded: a call is made   *)
(* when no call is running.                                                *)

\* A faulty order of the statements, in which the two resyncs come first.
FollowingResyncsFirst(line) ==
    CASE line = 112 -> 114
      [] line = 114 -> 122
      [] line = 122 -> 123
      [] line = 123 -> 116
      [] line = 116 -> 117
      [] line = 117 -> 118
      [] line = 118 -> 120
      [] line = 120 -> 124

\* The line executed after line, when line does not raise; 124 is the
\* return.
Following(line) ==
    CASE line = 112 -> 114
      [] line = 114 -> 116
      [] line = 116 -> 117
      [] line = 117 -> 118
      [] line = 118 -> 120
      [] line = 120 -> 122
      [] line = 122 -> 123
      [] line = 123 -> 124

TransferParties ==
    << <<"John", "Doe", 30, "California", "Employed", "Checking", 50>>,
       <<"Alice", "Smith", 28, "Texas", "Unemployed", "Savings", 0>> >>

InitTransfer ==
    /\ objs = [i \in 1..Len(TransferParties) |->
                  LET r == TransferParties[i]
                  IN  NewAccount(i, r[1], r[2], r[3], r[4], r[5], r[6], r[7])]
    /\ accounts = [i \in 1..Len(TransferParties) |-> i]
    /\ mirror = ExportAccountsToCsv(accounts, objs)
    /\ nextId = Len(TransferParties) + 1
    /\ nextTxn = 1
    /\ nOps = 0
    /\ nUpdates = 0
    /\ last = Call("init", "none")

\* The call self.transfer(target_account, amount) is made: control is at
\* the first statement.
TransferCall(a, b, amount) ==
    /\ a \in DOMAIN objs
    /\ b \in DOMAIN objs
    /\ last.err # "running"
    /\ nOps < MaxOps
    /\ last' = [op |-> "transfer", err |-> "running", line |-> 112,
                self |-> a, target_account |-> b, amount |-> amount,
                objs0 |-> objs, mirror0 |-> mirror]
    /\ UNCHANGED <<objs, accounts, mirror, nextId, nextTxn, nOps, nUpdates>>

\* The running call executes the statement it is at.
TransferStep ==
    /\ last.err = "running"
    /\ LET a == last.self
           b == last.target_account
           amount == last.amount
           raised(err) == last' = [last EXCEPT !.err = err]
           passed == last' = [last EXCEPT
                                 !.line = Following(last.line),
                                 !.err = IF Following(last.line) = 124
                                         THEN "none" ELSE "running"]
       IN  /\ UNCHANGED <<accounts, nextId, nUpdates>>
           /\ CASE last.line = 112 ->
                      /\ IF InvalidAmount(amount) THEN raised("InvalidAmount") ELSE passed
                      /\ UNCHANGED <<objs, mirror, nextTxn, nOps>>
                [] last.line = 114 ->
                      /\ IF InsufficientFunds(objs[a], amount)
                         THEN raised("InsufficientFunds") ELSE passed
                      /\ UNCHANGED <<objs, mirror, nextTxn, nOps>>
                [] last.line = 116 ->
                      /\ objs' = [objs EXCEPT ![a].balance = @ - amount]
                      /\ nOps' = nOps + 1
                      /\ passed
                      /\ UNCHANGED <<mirror, nextTxn>>
                [] last.line = 117 ->
                      /\ objs' = [objs EXCEPT ![b].balance = @ + amount]
                      /\ passed
                      /\ UNCHANGED <<mirror, nextTxn, nOps>>
                [] last.line = 118 ->
                      /\ objs' = [objs EXCEPT ![a].transactions =
                                     Append(@, Transaction("Transfer Out", amount,
                                                           Some(objs[b].account_id), nextTxn))]
                      /\ nextTxn' = nextTxn + 1
                      /\ passed
                      /\ UNCHANGED <<mirror, nOps>>
                [] last.line = 120 ->
                      /\ objs' = [objs EXCEPT ![b].transactions =
                                     Append(@, Transaction("Transfer In", amount,
                                                           Some(objs[a].account_id), nextTxn))]
                      /\ nextTxn' = nextTxn + 1
                      /\ passed
                      /\ UNCHANGED <<mirror, nOps>>
                [] last.line = 122 ->
                      /\ mirror' = ExportBalanceUpdate(objs[a], mirror)
                      /\ passed
                      /\ UNCHANGED <<objs, nextTxn, nOps>>
                [] last.line = 123 ->
                      /\ mirror' = ExportBalanceUpdate(objs[b], mirror)
                      /\ passed
                      /\ UNCHANGED <<objs, nextTxn, nOps>>

TransferBegin ==
    \E a \in Ids, b \in Ids, amount \in Amounts : TransferCall(a, b, amount)

NextTransfer ==
    \/ TransferBegin
    \/ TransferStep

SpecTransfer == InitTransfer /\ [][NextTransfer]_vars

----------------------------------------------------------------------------
(* SpecConcurrent: two callers, each in a call of Account.deposit of       *)
(* account.py on the bank of SpecTransfer, their statements interleaved.   *)
(* The resync of a call is two steps: the file is read into the list       *)
(* reader (line 161), and the file is rewritten from that list (lines 164  *)
(* to 185).  While the calls run, last holds the frame of each caller: its *)
(* receiver self, its argument, the line it is at, its list reader, and    *)
(* how its call ended.                                                     *)

Callers == {1, 2}

\* A faulty rewrite of the file, which writes the rows back as they were
\* read.
RewriteAsRead(self, reader) == File(reader)

\* Account.export_balance_update, lines 164 to 185: the file is rewritten
\* from the list reader read at line 161, with the balance of self.
Rewrite(self, reader) == ExportBalanceUpdate(self, File(reader))

\* The line of deposit and of the resync it calls that follows line; 0 is
\* the return.
FollowingOfDeposit(line) ==
    CASE line = 77 -> 79
      [] line = 79 -> 80
      [] line = 80 -> 161
      [] line = 161 -> 164
      [] line = 164 -> 0

\* The frame of a call self.deposit(amount) that is at its first statement.
DepositFrame(a, amount) ==
    [self |-> a, amount |-> amount, line |-> 77, reader |-> <<>>,
     stale |-> FALSE, err |-> "running"]

\* Both callers make their calls.
Fork(a1, amount1, a2, amount2) ==
    /\ last.op = "init"
    /\ a1 \in DOMAIN objs
    /\ a2 \in DOMAIN objs
    /\ last' = [op |-> "deposit", err |-> "running",
                callers |-> <<DepositFrame(a1, amount1), DepositFrame(a2, amount2)>>]
    /\ UNCHANGED <<objs, accounts, mirror, nextId, nextTxn, nOps, nUpdates>>

\* Caller c executes the statement it is at.  stale records, at the
\* rewrite, that the file was no longer the one the caller had read.
DepositStep(c) ==
    /\ last.op = "deposit"
    /\ last.err = "running"
    /\ last.callers[c].err = "running"
    /\ LET f == last.callers[c]
           a == f.self
           to(g) == LET cs == [last.callers EXCEPT ![c] = g]
                    IN  last' = [last EXCEPT
                                    !.callers = cs,
                                    !.err = IF \A d \in Callers : cs[d].err # "running"
                                            THEN "none" ELSE "running"]
           passed == [f EXCEPT !.line = FollowingOfDeposit(f.line),
                               !.err = IF FollowingOfDeposit(f.line) = 0
                                       THEN "none" ELSE "running"]
       IN  /\ UNCHANGED <<accounts, nextId, nUpdates, nOps>>
           /\ CASE f.line = 77 ->
                      /\ IF InvalidAmount(f.amount)
                         THEN to([f EXCEPT !.err = "InvalidAmount"])
                         ELSE to(passed)
                      /\ UNCHANGED <<objs, mirror, nextTxn>>
                [] f.line = 79 ->
                      /\ objs' = [objs EXCEPT ![a].balance = @ + f.amount]
                      /\ to(passed)
                      /\ UNCHANGED <<mirror, nextTxn>>
                [] f.line = 80 ->
                      /\ objs' = [objs EXCEPT ![a].transactions =
                                     Append(@, Transaction("Deposit", f.amount, None, nextTxn))]
                      /\ nextTxn' = nextTxn + 1
                      /\ to(passed)
                      /\ UNCHANGED mirror
                [] f.line = 161 ->
                      /\ to([passed EXCEPT !.reader = mirror.rows])
                      /\ UNCHANGED <<objs, mirror, nextTxn>>
                [] f.line = 164 ->
                      /\ mirror' = Rewrite(objs[a], f.reader)
                      /\ to([passed EXCEPT !.stale = (f.reader # mirror.rows)])
                      /\ UNCHANGED <<objs, nextTxn>>

ForkDeposits ==
    \E a1 \in Ids, a2 \in Ids, amount1 \in Amounts, amount2 \in Amounts :
        Fork(a1, amount1, a2, amount2)

StepOfACaller ==
    \E c \in Callers : DepositStep(c)

NextConcurrent ==
    \/ ForkDeposits
    \/ StepOfACaller

SpecConcurrent == InitTransfer /\ [][NextConcurrent]_vars

----------------------------------------------------------------------------
(* SpecReads: the operations that read, among deposits and transfers, on   *)
(* the bank of SpecTransfer.  A call that returns a value leaves it in     *)
(* last, with its receiver.                                                *)

\* Account.get_transaction_history
GetTransactionHistory(self) ==
    [i \in 1..Len(self.transactions) |-> ToDict(self.transactions[i])]

\* Account.get_details: the values the string shows, in its order.
GetDetails(self) ==
    <<self.account_id, self.first_name, self.last_name, self.age, self.state,
      self.job, self.account_type, Format2f(self.balance)>>

\* Bank.list_accounts: the lines it prints, one for each account of the
\* mapping, in the mapping's order.
ListAccounts(accts, os) ==
    [i \in 1..Len(accts) |->
        LET account == os[accts[i]]
        IN  <<accts[i], account.first_name, account.last_name, account.age,
              account.state, account.job, account.account_type,
              Format2f(account.balance)>>]

Returned(op, a, value) ==
    [op |-> op, err |-> "none", self |-> a, returned |-> value]

HistoryCall(a) ==
    /\ a \in DOMAIN objs
    /\ last' = Returned("get_transaction_history", a, GetTransactionHistory(objs[a]))
    /\ UNCHANGED <<objs, accounts, mirror, nextId, nextTxn, nOps, nUpdates>>

DetailsCall(a) ==
    /\ a \in DOMAIN objs
    /\ last' = Returned("get_details", a, GetDetails(objs[a]))
    /\ UNCHANGED <<objs, accounts, mirror, nextId, nextTxn, nOps, nUpdates>>

ListCall ==
    /\ last' = Returned("list_accounts", 0, ListAccounts(accounts, objs))
    /\ UNCHANGED <<objs, accounts, mirror, nextId, nextTxn, nOps, nUpdates>>

\* BankCLI.view_transaction_history
ViewTransactionHistory ==
    \E a \in Ids : InBank(a) /\ HistoryCall(a)

\* The print of BankCLI.view_account_details
PrintDetails ==
    \E a \in Ids : InBank(a) /\ DetailsCall(a)

NextReads ==
    \/ DepositMoney(Reliable)
    \/ TransferMoney(Reliable)
    \/ ViewTransactionHistory
    \/ FilterHistory
    \/ PrintDetails
    \/ ListCall

SpecReads == InitTransfer /\ [][NextReads]_vars

----------------------------------------------------------------------------
(* SpecKwargs: Bank.update_account_info(account_id, **kwargs) of the       *)
(* revision that takes the fields as keyword arguments, on the bank of     *)
(* SpecTransfer.  kwargs is the sequence of the pairs of a name and a      *)
(* value, in the order the caller wrote them.                              *)

valid_fields == {"first_name", "last_name", "age", "state", "job"}

KwargsRequests ==
    { << <<"first_name", "Robert">> >>,
      << <<"age", 55>>, <<"job", "Retired">> >>,
      << <<"state", "Georgia">>, <<"nickname", "Bob">> >>,
      << <<"nickname", "Bob">>, <<"last_name", "Brownie">> >> }

\* The loop over kwargs.items(): setattr for each name of valid_fields, up
\* to the first name that is not one, at which the loop raises.
RECURSIVE SetFields(_, _)
SetFields(account, kwargs) ==
    IF kwargs = <<>>
    THEN [err |-> "none", account |-> account]
    ELSE LET key == Head(kwargs)[1]
             value == Head(kwargs)[2]
         IN  IF key \in valid_fields
             THEN SetFields([account EXCEPT ![key] = value], Tail(kwargs))
             ELSE [err |-> "InvalidField", account |-> account]

\* Bank.update_account_info(account_id, **kwargs)
UpdateAccountInfo(account_id, kwargs, sinks) ==
    /\ UNCHANGED <<accounts, nextId, nextTxn, nUpdates>>
    /\ IF GetAccount(accounts, objs, account_id).err # "none"
       THEN /\ last' = Call("update_account_info", GetAccount(accounts, objs, account_id).err)
            /\ UNCHANGED <<objs, mirror, nOps>>
       ELSE LET set == SetFields(objs[account_id], kwargs)
            IN  /\ objs' = [objs EXCEPT ![account_id] = set.account]
                /\ IF set.err # "none"
                   THEN /\ last' = Call("update_account_info", set.err)
                        /\ UNCHANGED <<mirror, nOps>>
                   ELSE /\ Acts
                        /\ Resync("update_account_info", sinks,
                                  ExportAccountsToCsv(accounts, objs'))

UpdateAccount(sinks) ==
    \E account_id \in Ids, kwargs \in KwargsRequests :
        UpdateAccountInfo(account_id, kwargs, sinks)

NextKwargs ==
    \/ UpdateAccount(Reliable)
    \/ DepositMoney(Reliable)
    \/ ViewAccountDetails

SpecKwargs == InitTransfer /\ [][NextKwargs]_vars

----------------------------------------------------------------------------
(* SpecHandles: callers that keep the Account objects Bank.get_account     *)
(* returned and call their methods later, after accounts may have been     *)
(* deleted from the bank: delete_account removes the entry of the mapping, *)
(* the object lives on in its holder's hands.                              *)

DepositOnHandle ==
    \E a \in DOMAIN objs, amount \in Amounts : Deposit(a, amount, Reliable)

WithdrawOnHandle ==
    \E a \in DOMAIN objs, amount \in Amounts : Withdraw(a, amount, Reliable)

TransferOnHandles ==
    \E a \in DOMAIN objs, b \in DOMAIN objs, amount \in Amounts :
        Transfer(a, b, amount, Reliable)

UpdateOnHandle ==
    \E a \in DOMAIN objs, r \in InfoRequests :
        UpdateInfo(a, r[1], r[2], r[3], r[4], r[5], Reliable)

NextHandles ==
    \/ Delete(Reliable)
    \/ DepositOnHandle
    \/ WithdrawOnHandle
    \/ TransferOnHandles
    \/ UpdateOnHandle

SpecHandles == InitTransfer /\ [][NextHandles]_vars

----------------------------------------------------------------------------
(* SpecShell: BankCLI from its constructor on.  BankCLI.__init__ builds a  *)
(* Bank, whose constructor loads the initial accounts, and then calls      *)
(* load_initial_accounts of that bank itself; the menu runs after that.    *)

\* self.bank = Bank()
ShellBuildsBank ==
    /\ last.op = "init"
    /\ \E seed \in Seeds : LoadInitialAccounts(seed)

\* self.bank.load_initial_accounts()
ShellLoads ==
    /\ last.op = "load_initial_accounts"
    /\ Len(objs) = InitialAccountCount
    /\ \E seed \in Seeds : LoadInitialAccounts(seed)

\* BankCLI.__init__ has returned.
ShellConstructed == Len(objs) > InitialAccountCount

NextShell ==
    \/ ShellBuildsBank
    \/ ShellLoads
    \/ ShellConstructed /\ InMenu /\ DepositMoney(Reliable)
    \/ ShellConstructed /\ InMenu /\ Delete(Reliable)
    \/ ShellConstructed /\ InMenu /\ ViewAccountDetails
    \/ ShellConstructed /\ InMenu /\ Exit

SpecShell == Init /\ [][NextShell]_vars

----------------------------------------------------------------------------
(* SpecInterface: the Account of banking_system_interface.py, built and    *)
(* used without a Bank, as the tests build and use an Account.  Its record *)
(* and its checks are those of account.py; its export_balance_update opens *)
(* the file for reading without creating it first.                         *)

\* Account.export_balance_update of banking_system_interface.py: open(.., "r")
\* raises FileNotFoundError on a missing file; on a file that is there the
\* read and the rewrite are those of account.py.
InterfaceExportBalanceUpdate(self, m) ==
    IF ~m.exists
    THEN [err |-> "PersistenceFailure", file |-> m]
    ELSE [err |-> "none", file |-> ExportBalanceUpdate(self, m)]

\* Account.__init__ of banking_system_interface.py, called by the owner of
\* the account: no bank holds it, and nothing is written.
InterfaceAccountInit(first_name, last_name, age, state, job, account_type, initial_balance) ==
    /\ UNCHANGED <<accounts, mirror, nextTxn, nUpdates>>
    /\ IF ~ValidAccountType(account_type)
       THEN /\ last' = Call("__init__", "InvalidCategory")
            /\ UNCHANGED <<objs, nextId, nOps>>
       ELSE /\ nextId <= MaxAccounts
            /\ Acts
            /\ objs' = Append(objs, NewAccount(nextId, first_name, last_name, age, state,
                                               job, account_type, initial_balance))
            /\ nextId' = nextId + 1
            /\ last' = Call("__init__", "none")

\* Account.deposit of banking_system_interface.py
InterfaceDeposit(a, amount) ==
    /\ a \in DOMAIN objs
    /\ UNCHANGED <<accounts, nextId, nUpdates>>
    /\ IF InvalidAmount(amount)
       THEN /\ last' = Call("deposit", "InvalidAmount")
            /\ UNCHANGED <<objs, mirror, nextTxn, nOps>>
       ELSE /\ Acts
            /\ LET self == ApplyDeposit(objs[a], amount, nextTxn)
                   export == InterfaceExportBalanceUpdate(self, mirror)
               IN  /\ objs' = [objs EXCEPT ![a] = self]
                   /\ mirror' = export.file
                   /\ last' = Call("deposit", export.err)
            /\ nextTxn' = nextTxn + 1

\* Account.withdraw of banking_system_interface.py
InterfaceWithdraw(a, amount) ==
    /\ a \in DOMAIN objs
    /\ UNCHANGED <<accounts, nextId, nUpdates>>
    /\ IF InvalidAmount(amount)
       THEN /\ last' = Call("withdraw", "InvalidAmount")
            /\ UNCHANGED <<objs, mirror, nextTxn, nOps>>
       ELSE IF InsufficientFunds(objs[a], amount)
       THEN /\ last' = Call("withdraw", "InsufficientFunds")
            /\ UNCHANGED <<objs, mirror, nextTxn, nOps>>
       ELSE /\ Acts
            /\ LET self == ApplyWithdraw(objs[a], amount, nextTxn)
                   export == InterfaceExportBalanceUpdate(self, mirror)
               IN  /\ objs' = [objs EXCEPT ![a] = self]
                   /\ mirror' = export.file
                   /\ last' = Call("withdraw", export.err)
            /\ nextTxn' = nextTxn + 1

InterfaceOpen ==
    \E r \in CreateRequests : InterfaceAccountInit(r[1], r[2], r[3], r[4], r[5], r[6], r[7])

InterfaceDepositMoney ==
    \E a \in Ids, amount \in Amounts : InterfaceDeposit(a, amount)

InterfaceWithdrawMoney ==
    \E a \in Ids, amount \in Amounts : InterfaceWithdraw(a, amount)

NextInterface ==
    \/ InterfaceOpen
    \/ InterfaceDepositMoney
    \/ InterfaceWithdrawMoney

SpecInterface == Init /\ [][NextInterface]_vars

----------------------------------------------------------------------------
(* Reading the state back. *)

\* The amount an entry of a log adds to the balance.
SignedAmount(t) ==
    IF t.transaction_type \in {"Deposit", "Transfer In"} THEN t.amount ELSE -t.amount

RECURSIVE SignedSum(_)
SignedSum(log) ==
    IF log = <<>> THEN 0 ELSE SignedAmount(Head(log)) + SignedSum(Tail(log))

\* A balance, and a decimal text, to two decimals: in cents.
Cents(balance) ==
    IF balance < 0 THEN -((Abs(balance) + 2) \div 5) ELSE (balance + 2) \div 5

TextCents(text) ==
    IF text.neg THEN -((text.thousandths + 5) \div 10) ELSE (text.thousandths + 5) \div 10

RowsOf(m, id) == {i \in 1..Len(m.rows) : m.rows[i].account_id = id}

Kinds(log) == {log[i].transaction_type : i \in 1..Len(log)}

Gained(before, after, n) ==
    /\ Len(after) = Len(before) + n
    /\ SubSeq(after, 1, Len(before)) = before

\* The step is a call of op: every operation records itself in last.
By(op) == last'.op = op

\* The step ended with err and left the accounts, the bank and the mirror alone.
Rejected(err) ==
    /\ last'.err = err
    /\ objs' = objs
    /\ accounts' = accounts
    /\ mirror' = mirror

----------------------------------------------------------------------------
(* C1: every account's balance is its initial balance plus its Deposit and *)
(* Transfer In amounts minus its Withdrawal and Transfer Out amounts.      *)
C1_BalanceIsInitialPlusLog ==
    \A a \in DOMAIN objs :
        objs[a].balance = objs[a].initial_balance + SignedSum(objs[a].transactions)

C1_Witness ==
    \E a \in DOMAIN objs, b \in DOMAIN objs :
        /\ a # b
        /\ "Transfer Out" \in Kinds(objs[a].transactions)
        /\ "Transfer In" \in Kinds(objs[b].transactions)
        /\ objs[a].balance < objs[a].initial_balance
        /\ objs[b].balance > objs[b].initial_balance

(* C2: every account's balance is >= 0 in every reachable state, whatever  *)
(* initial balance the caller passed.                                      *)
C2_BalanceNeverNegative ==
    \A a \in DOMAIN objs : objs[a].balance >= 0

(* C3: withdraw and transfer with an amount above the source's balance     *)
(* raise the insufficient-funds error and leave both accounts and the      *)
(* mirror as they were.                                                    *)
C3_OverdrawRaisesInsufficientFunds ==
    [][/\ By("withdraw") =>
            \A a \in DOMAIN objs, amount \in Amounts :
                (amount > objs[a].balance /\ Withdraw(a, amount, Reliable))
                => Rejected("InsufficientFunds")
       /\ By("transfer") =>
            \A a \in DOMAIN objs, b \in DOMAIN objs, amount \in Amounts :
                (amount > objs[a].balance /\ Transfer(a, b, amount, Reliable))
                => Rejected("InsufficientFunds")]_vars

(* C4: deposit, withdraw and transfer with an amount <= 0 raise the        *)
(* invalid-amount error and change no balance, log or mirror row.          *)
C4_NonPositiveAmountIsRejected ==
    [][/\ By("deposit") =>
            \A a \in DOMAIN objs, amount \in Amounts :
                (amount <= 0 /\ Deposit(a, amount, Reliable)) => Rejected("InvalidAmount")
       /\ By("withdraw") =>
            \A a \in DOMAIN objs, amount \in Amounts :
                (amount <= 0 /\ Withdraw(a, amount, Reliable)) => Rejected("InvalidAmount")
       /\ By("transfer") =>
            \A a \in DOMAIN objs, b \in DOMAIN objs, amount \in Amounts :
                (amount <= 0 /\ Transfer(a, b, amount, Reliable)) => Rejected("InvalidAmount")]_vars

C4_Witness ==
    /\ last.op = "transfer"
    /\ last.err = "InvalidAmount"
    /\ mirror.rows # <<>>

\* What C5 says of a successful transfer of amount from a to b.
TransferMoved(a, b, amount) ==
    /\ objs'[a].balance = objs[a].balance - amount
    /\ objs'[b].balance = objs[b].balance + amount
    /\ Gained(objs[a].transactions, objs'[a].transactions, 1)
    /\ Gained(objs[b].transactions, objs'[b].transactions, 1)
    /\ LET out == objs'[a].transactions[Len(objs'[a].transactions)]
           in_ == objs'[b].transactions[Len(objs'[b].transactions)]
       IN  /\ out.transaction_type = "Transfer Out"
           /\ out.amount = amount
           /\ out.target_account = Some(objs[b].account_id)
           /\ in_.transaction_type = "Transfer In"
           /\ in_.amount = amount
           /\ in_.target_account = Some(objs[a].account_id)

(* C5, as claimed: for all accounts A and B, a successful A.transfer(B, x) *)
(* lowers A.balance by x, raises B.balance by x, and adds one Transfer Out *)
(* entry to A's log and one Transfer In entry to B's.                      *)
C5_TransferMovesAmount_AnyPair ==
    [][By("transfer") =>
          \A a \in DOMAIN objs, b \in DOMAIN objs, amount \in Amounts :
              (Transfer(a, b, amount, Reliable) /\ last'.err = "none")
              => TransferMoved(a, b, amount)]_vars

(* C5, amended: the same for two different accounts A and B.               *)
C5_TransferMovesAmount ==
    [][By("transfer") =>
          \A a \in DOMAIN objs, b \in DOMAIN objs, amount \in Amounts :
              (a # b /\ Transfer(a, b, amount, Reliable) /\ last'.err = "none")
              => TransferMoved(a, b, amount)]_vars

C5_Witness ==
    /\ last = Call("transfer", "none")
    /\ \E a \in DOMAIN objs, b \in DOMAIN objs :
          /\ a # b
          /\ objs[a].transactions # <<>>
          /\ objs[b].transactions # <<>>
          /\ objs[a].transactions[Len(objs[a].transactions)].target_account = Some(b)
          /\ objs[b].transactions[Len(objs[b].transactions)].target_account = Some(a)
          /\ objs[a].transactions[Len(objs[a].transactions)].transaction_type = "Transfer Out"

\* Both halves of a transfer of amount from a to b are in memory.
BothSidesApplied(a, b, amount) ==
    IF a = b
    THEN /\ objs'[a].balance = objs[a].balance
         /\ Gained(objs[a].transactions, objs'[a].transactions, 2)
    ELSE /\ objs'[a].balance = objs[a].balance - amount
         /\ objs'[b].balance = objs[b].balance + amount
         /\ Gained(objs[a].transactions, objs'[a].transactions, 1)
         /\ Gained(objs[b].transactions, objs'[b].transactions, 1)

(* C6, as claimed: whenever a transfer ends with an error (invalid amount, *)
(* insufficient funds, or a failed resync write), no balance and no log of *)
(* either account differs from before the call.                            *)
C6_FailedTransferChangesNothing ==
    [][By("transfer") =>
          \A a \in DOMAIN objs, b \in DOMAIN objs, amount \in Amounts :
              (Transfer(a, b, amount, SinkOutcomes) /\ last'.err # "none")
              => objs' = objs]_vars

(* C6, amended: a transfer that ends with the invalid-amount or the        *)
(* insufficient-funds error changes no balance and no log; a transfer that *)
(* ends with a failed resync write has both of its halves in memory (both  *)
(* balances moved, both logs one entry longer): never one half alone.      *)
C6_TransferIsAllOrNothing ==
    [][By("transfer") =>
          \A a \in DOMAIN objs, b \in DOMAIN objs, amount \in Amounts :
              (Transfer(a, b, amount, SinkOutcomes) /\ last'.err # "none")
              => \/ /\ last'.err \in {"InvalidAmount", "InsufficientFunds"}
                    /\ objs' = objs
                 \/ /\ last'.err = "PersistenceFailure"
                    /\ BothSidesApplied(a, b, amount)
                    /\ \A c \in DOMAIN objs : c \notin {a, b} => objs'[c] = objs[c]]_vars

C6_Witness ==
    /\ last = Call("transfer", "PersistenceFailure")
    /\ \E a \in DOMAIN objs, b \in DOMAIN objs :
          /\ a # b
          /\ "Transfer Out" \in Kinds(objs[a].transactions)
          /\ "Transfer In" \in Kinds(objs[b].transactions)
          /\ RowsOf(mirror, b) # {}
          /\ \A i \in RowsOf(mirror, b) :
                TextCents(mirror.rows[i].balance) # Cents(objs[b].balance)

\* A row of the mirror shows the holder's metadata of an account.
RowShowsHolder(row, account) ==
    /\ row.first_name = account.first_name
    /\ row.last_name = account.last_name
    /\ row.age = account.age
    /\ row.state = account.state
    /\ row.job = account.job

(* C7: with a sink that works, the mirror holds exactly one row for every  *)
(* account of the bank and no other row, and each row's first_name,        *)
(* last_name, age, state, job and account_type are the account's, and its  *)
(* balance is the account's balance to two decimals.                       *)
C7_MirrorMatchesLedger ==
    /\ \A j \in 1..Len(mirror.rows) : InBank(mirror.rows[j].account_id)
    /\ \A i \in 1..Len(accounts) :
          /\ Cardinality(RowsOf(mirror, accounts[i])) = 1
          /\ \A j \in RowsOf(mirror, accounts[i]) :
                /\ RowShowsHolder(mirror.rows[j], objs[accounts[i]])
                /\ mirror.rows[j].account_type = objs[accounts[i]].account_type
                /\ TextCents(mirror.rows[j].balance) = Cents(objs[accounts[i]].balance)

(* C8: when update_info changes a metadata field of an account that has a  *)
(* row in the mirror, the row's first_name, last_name, age, state and job  *)
(* after the resync are the account's new values.                          *)
C8_UpdateInfoResyncsMetadata ==
    [][By("update_info") =>
          \A a \in DOMAIN objs, r \in InfoRequests :
              (/\ UpdateInfo(a, r[1], r[2], r[3], r[4], r[5], Reliable)
               /\ RowsOf(mirror, a) # {}
               /\ objs'[a] # objs[a])
              => \A j \in RowsOf(mirror', a) : RowShowsHolder(mirror'.rows[j], objs'[a])]_vars

\* The value a field has after an update that was given o for it.
Updated(o, old) == IF IsNone(o) THEN old ELSE Val(o)

(* C9: update_info sets each of first_name, last_name, age, state and job  *)
(* that is supplied to the supplied value, leaves the others as they were, *)
(* changes neither account_id, account_type, balance nor the log, changes  *)
(* no other account, and Bank.get_account of the id returns the account    *)
(* with the new values.                                                    *)
C9_UpdateInfoSetsSuppliedFieldsOnly ==
    [][By("update_info") =>
        \A a \in DOMAIN objs, r \in InfoRequests :
          UpdateInfo(a, r[1], r[2], r[3], r[4], r[5], Reliable)
          => /\ GetAccount(accounts', objs', a).err = "none"
             /\ LET old == objs[a]
                    got == Val(GetAccount(accounts', objs', a).account)
                IN  /\ got.first_name = Updated(r[1], old.first_name)
                    /\ got.last_name = Updated(r[2], old.last_name)
                    /\ got.age = Updated(r[3], old.age)
                    /\ got.state = Updated(r[4], old.state)
                    /\ got.job = Updated(r[5], old.job)
                    /\ got.account_id = old.account_id
                    /\ got.account_type = old.account_type
                    /\ got.balance = old.balance
                    /\ got.transactions = old.transactions
             /\ \A c \in DOMAIN objs : c # a => objs'[c] = objs[c]
             /\ accounts' = accounts]_vars

C9_Witness ==
    /\ last = Call("update_info", "none")
    /\ \E a \in DOMAIN objs :
          /\ InBank(a)
          /\ objs[a].age = 0
          /\ objs[a].first_name = "John"
          /\ objs[a].transactions # <<>>

(* C10: every balance in the mirror, whether written by                    *)
(* export_balance_update or by export_accounts_to_csv, shows exactly two   *)
(* decimal places.                                                         *)
C10_BalanceHasTwoPlaces ==
    \A j \in 1..Len(mirror.rows) : mirror.rows[j].balance.places = 2

\* The last entry of a log.
Last(log) == log[Len(log)]

(* C11: a deposit of amount > 0 that succeeds raises the account's balance *)
(* by amount, appends one Deposit entry of that amount with no             *)
(* counterparty to its log, changes no other account, and leaves the       *)
(* account's row of the mirror showing the new balance.                    *)
C11_DepositAddsAmount ==
    [][By("deposit") =>
          \A a \in DOMAIN objs, amount \in Amounts :
              (amount > 0 /\ Deposit(a, amount, Reliable) /\ last'.err = "none")
              => /\ objs'[a].balance = objs[a].balance + amount
                 /\ Gained(objs[a].transactions, objs'[a].transactions, 1)
                 /\ Last(objs'[a].transactions).transaction_type = "Deposit"
                 /\ Last(objs'[a].transactions).amount = amount
                 /\ Last(objs'[a].transactions).target_account = None
                 /\ \A c \in DOMAIN objs : c # a => objs'[c] = objs[c]
                 /\ accounts' = accounts
                 /\ RowsOf(mirror', a) # {}
                 /\ \A j \in RowsOf(mirror', a) :
                       mirror'.rows[j].balance = Format2f(objs'[a].balance)]_vars

C11_Witness ==
    /\ last = Call("deposit", "none")
    /\ \E a \in DOMAIN objs :
          /\ objs[a].transactions # <<>>
          /\ Last(objs[a].transactions).transaction_type = "Deposit"
          /\ objs[a].balance = objs[a].initial_balance + 50
          /\ \E j \in RowsOf(mirror, a) : mirror.rows[j].balance = Format2f(objs[a].balance)

(* C12: withdraw(amount) succeeds for every amount with                    *)
(* 0 < amount <= balance, the whole balance included; it lowers the        *)
(* balance by amount and appends one Withdrawal entry of that amount.      *)
C12_WithdrawUpToBalanceSucceeds ==
    [][By("withdraw") =>
          \A a \in DOMAIN objs, amount \in Amounts :
              (0 < amount /\ amount <= objs[a].balance /\ Withdraw(a, amount, Reliable))
              => /\ last'.err = "none"
                 /\ objs'[a].balance = objs[a].balance - amount
                 /\ Gained(objs[a].transactions, objs'[a].transactions, 1)
                 /\ Last(objs'[a].transactions).transaction_type = "Withdrawal"
                 /\ Last(objs'[a].transactions).amount = amount]_vars

C12_Witness ==
    /\ last = Call("withdraw", "none")
    /\ \E a \in DOMAIN objs :
          /\ objs[a].balance = 0
          /\ objs[a].initial_balance = 50
          /\ Len(objs[a].transactions) = 1
          /\ Last(objs[a].transactions).transaction_type = "Withdrawal"

(* C13: create_account with an account type other than Checking or        *)
(* Savings raises the invalid-category error and leaves the mapping, the   *)
(* accounts and the mirror as they were.                                   *)
C13_InvalidCategoryIsRejected ==
    [][By("create_account") =>
          \A r \in CreateRequests :
              (/\ r[6] \notin {"Checking", "Savings"}
               /\ CreateAccount(r[1], r[2], r[3], r[4], r[5], r[6], r[7], Reliable))
              => Rejected("InvalidCategory")]_vars

C13_Witness ==
    /\ last = Call("create_account", "InvalidCategory")
    /\ accounts # <<>>
    /\ Len(mirror.rows) = Len(accounts)

(* C14: a create_account that succeeds returns an id that was no key of    *)
(* the mapping, adds that one key, bound to an account with the supplied   *)
(* metadata, account type and initial balance and an empty log, leaves     *)
(* every account that was there unchanged, and rewrites the mirror to one  *)
(* row for each account of the mapping.                                    *)
C14_CreateAddsOneAccount ==
    [][By("create_account") =>
          \A r \in CreateRequests :
              (/\ CreateAccount(r[1], r[2], r[3], r[4], r[5], r[6], r[7], Reliable)
               /\ last'.err = "none")
              => LET id == Last(accounts')
                 IN  /\ ~InBank(id)
                     /\ accounts' = Append(accounts, id)
                     /\ objs'[id].account_id = id
                     /\ objs'[id].first_name = r[1]
                     /\ objs'[id].last_name = r[2]
                     /\ objs'[id].age = r[3]
                     /\ objs'[id].state = r[4]
                     /\ objs'[id].job = r[5]
                     /\ objs'[id].account_type = r[6]
                     /\ objs'[id].balance = r[7]
                     /\ objs'[id].transactions = <<>>
                     /\ \A c \in DOMAIN objs : objs'[c] = objs[c]
                     /\ Len(mirror'.rows) = Len(accounts')
                     /\ \A i \in 1..Len(accounts') :
                           Cardinality(RowsOf(mirror', accounts'[i])) = 1]_vars

C14_Witness ==
    /\ last = Call("create_account", "none")
    /\ Len(accounts) = 2
    /\ Len(mirror.rows) = 2
    /\ objs[accounts[1]].transactions # <<>>
    /\ objs[accounts[2]].transactions = <<>>

(* C15: when the id generated for a new account is the id of an account    *)
(* of the mapping, create_account does not replace or drop that account:   *)
(* every account of the mapping is still there, unchanged, after every     *)
(* create_account.                                                         *)
C15_CreateNeverDiscardsAnAccount ==
    [][By("create_account") =>
          \A i \in 1..Len(accounts) :
              /\ \E j \in 1..Len(accounts') : accounts'[j] = accounts[i]
              /\ objs'[accounts[i]] = objs[accounts[i]]]_vars

\* id is no key of the mapping.
Absent(id) == \A i \in 1..Len(accounts) : accounts[i] # id

(* C16: get_account(id) raises the account-not-found error exactly when id *)
(* is no key of the mapping; either way it changes neither the mapping,    *)
(* nor an account, nor the mirror; for a key it returns the account kept   *)
(* under that id.                                                          *)
C16_GetAccountFindsExactlyTheKeys ==
    [][By("get_account") =>
          \A id \in Ids :
              LookUp(id)
              => /\ (last'.err = "AccountNotFound") <=> Absent(id)
                 /\ last'.err \in {"none", "AccountNotFound"}
                 /\ objs' = objs
                 /\ accounts' = accounts
                 /\ mirror' = mirror
                 /\ ~Absent(id) =>
                       /\ GetAccount(accounts, objs, id).account = Some(objs[id])
                       /\ objs[id].account_id = id]_vars

C16_Witness ==
    /\ last = Call("get_account", "none")
    /\ Len(accounts) = 2
    /\ objs[accounts[1]] # objs[accounts[2]]

(* C17: delete_account(id) with an id that is no key of the mapping raises *)
(* the account-not-found error and leaves the mapping and the mirror as    *)
(* they were.                                                              *)
C17_DeleteOfAbsentIdIsRejected ==
    [][By("delete_account") =>
          \A id \in Ids :
              (Absent(id) /\ DeleteAccount(id, Reliable)) => Rejected("AccountNotFound")]_vars

C17_Witness ==
    /\ last = Call("delete_account", "AccountNotFound")
    /\ accounts # <<>>
    /\ \E id \in DOMAIN objs : Absent(id)

(* C18: a delete_account(id) that succeeds removes that id and no other    *)
(* from the mapping: get_account(id) then raises not-found and the mirror  *)
(* has no row for it; no balance and no log entry of any account changes,  *)
(* so entries of other logs that name the deleted id stay as they were.    *)
C18_DeleteRemovesOnlyThatAccount ==
    [][By("delete_account") =>
          \A id \in Ids :
              (DeleteAccount(id, Reliable) /\ last'.err = "none")
              => /\ GetAccount(accounts', objs', id).err = "AccountNotFound"
                 /\ RowsOf(mirror', id) = {}
                 /\ Len(accounts') = Len(accounts) - 1
                 /\ \A i \in 1..Len(accounts) :
                       accounts[i] # id =>
                          /\ GetAccount(accounts', objs', accounts[i]).err = "none"
                          /\ RowsOf(mirror', accounts[i]) # {}
                 /\ objs' = objs]_vars

C18_Witness ==
    /\ last = Call("delete_account", "none")
    /\ \E b \in DOMAIN objs :
          /\ ~Absent(b)
          /\ \E k \in 1..Len(objs[b].transactions) :
                /\ objs[b].transactions[k].transaction_type \in {"Transfer In", "Transfer Out"}
                /\ Absent(Val(objs[b].transactions[k].target_account))

\* Where in a log the entry t is: entries are told apart by transaction_id.
Position(log, t) == CHOOSE i \in 1..Len(log) : log[i] = t

\* found holds the entries of log of kind k, each once, in the log's order.
IsFilterOf(found, log, k) ==
    /\ \A i \in 1..Len(found) :
          /\ found[i].transaction_type = k
          /\ \E j \in 1..Len(log) : log[j] = found[i]
    /\ \A j \in 1..Len(log) :
          log[j].transaction_type = k => \E i \in 1..Len(found) : found[i] = log[j]
    /\ \A i \in 1..Len(found), j \in 1..Len(found) :
          i < j => Position(log, found[i]) < Position(log, found[j])

(* C19: for every log and every kind k, filter_transactions(k) returns the *)
(* entries of the log whose kind is k and no other, in the order they have *)
(* in the log, the empty sequence when there is none, and leaves the log   *)
(* as it was.                                                              *)
C19_FilterReturnsTheMatchingEntriesInOrder ==
    [][By("filter_transactions") =>
          \A a \in DOMAIN objs, k \in TransactionTypes :
              FilterCall(a, k)
              => /\ IsFilterOf(FilterTransactions(objs[a], k), objs[a].transactions, k)
                 /\ (k \notin Kinds(objs[a].transactions)
                        => FilterTransactions(objs[a], k) = <<>>)
                 /\ last'.err = "none"
                 /\ objs' = objs]_vars

C19_Witness ==
    /\ last = Call("filter_transactions", "none")
    /\ \E a \in DOMAIN objs :
          /\ Len(objs[a].transactions) = 3
          /\ objs[a].transactions[2].transaction_type # "Withdrawal"
          /\ Len(FilterTransactions(objs[a], "Withdrawal")) = 2
          /\ FilterTransactions(objs[a], "deposit") = <<>>

(* C20: every log is append-only: across every step the log of every       *)
(* account before the step is a prefix of its log after the step.          *)
C20_LogsAreAppendOnly ==
    [][\A a \in DOMAIN objs :
          /\ a \in DOMAIN objs'
          /\ Len(objs'[a].transactions) >= Len(objs[a].transactions)
          /\ SubSeq(objs'[a].transactions, 1, Len(objs[a].transactions))
                = objs[a].transactions]_vars

C20_Witness ==
    \E a \in DOMAIN objs :
        /\ Len(objs[a].transactions) = 3
        /\ Cardinality(Kinds(objs[a].transactions)) >= 2

\* The call of this step passed its validation and made its changes.
Acted == nOps' = nOps + 1

(* C21: when a resync write fails during deposit, withdraw, transfer,      *)
(* update_info, create_account or delete_account, the call ends with the   *)
(* sink's error, and the balances, logs, metadata and mapping in memory    *)
(* are the ones the operation had applied.  A step in which the sink       *)
(* failed is one the operation makes with SinkOutcomes and cannot make     *)
(* with a sink that works.                                                 *)
C21_SinkFailureIsRaisedAndMemoryKept ==
    [][/\ By("deposit") =>
            \A a \in DOMAIN objs, amount \in Amounts :
                (Deposit(a, amount, SinkOutcomes) /\ Acted /\ ~Deposit(a, amount, Reliable))
                => /\ last'.err = "PersistenceFailure"
                   /\ objs'[a].balance = objs[a].balance + amount
                   /\ Gained(objs[a].transactions, objs'[a].transactions, 1)
       /\ By("withdraw") =>
            \A a \in DOMAIN objs, amount \in Amounts :
                (Withdraw(a, amount, SinkOutcomes) /\ Acted /\ ~Withdraw(a, amount, Reliable))
                => /\ last'.err = "PersistenceFailure"
                   /\ objs'[a].balance = objs[a].balance - amount
                   /\ Gained(objs[a].transactions, objs'[a].transactions, 1)
       /\ By("transfer") =>
            \A a \in DOMAIN objs, b \in DOMAIN objs, amount \in Amounts :
                (/\ Transfer(a, b, amount, SinkOutcomes)
                 /\ Acted
                 /\ ~Transfer(a, b, amount, Reliable))
                => /\ last'.err = "PersistenceFailure"
                   /\ BothSidesApplied(a, b, amount)
       /\ By("update_info") =>
            \A a \in DOMAIN objs, r \in InfoRequests :
                (/\ UpdateInfo(a, r[1], r[2], r[3], r[4], r[5], SinkOutcomes)
                 /\ ~UpdateInfo(a, r[1], r[2], r[3], r[4], r[5], Reliable))
                => /\ last'.err = "PersistenceFailure"
                   /\ objs'[a].first_name = Updated(r[1], objs[a].first_name)
                   /\ objs'[a].last_name = Updated(r[2], objs[a].last_name)
                   /\ objs'[a].age = Updated(r[3], objs[a].age)
                   /\ objs'[a].state = Updated(r[4], objs[a].state)
                   /\ objs'[a].job = Updated(r[5], objs[a].job)
       /\ By("create_account") =>
            \A r \in CreateRequests :
                (/\ CreateAccount(r[1], r[2], r[3], r[4], r[5], r[6], r[7], SinkOutcomes)
                 /\ Acted
                 /\ ~CreateAccount(r[1], r[2], r[3], r[4], r[5], r[6], r[7], Reliable))
                => /\ last'.err = "PersistenceFailure"
                   /\ Len(accounts') = Len(accounts) + 1
                   /\ objs'[Last(accounts')].first_name = r[1]
                   /\ objs'[Last(accounts')].balance = r[7]
       /\ By("delete_account") =>
            \A id \in Ids :
                (DeleteAccount(id, SinkOutcomes) /\ Acted /\ ~DeleteAccount(id, Reliable))
                => /\ last'.err = "PersistenceFailure"
                   /\ Len(accounts') = Len(accounts) - 1
                   /\ \A i \in 1..Len(accounts') : accounts'[i] # id]_vars

C21_Witness ==
    /\ last = Call("deposit", "PersistenceFailure")
    /\ \E a \in DOMAIN objs :
          /\ ~Absent(a)
          /\ objs[a].balance = objs[a].initial_balance + 50
          /\ Kinds(objs[a].transactions) = {"Deposit"}
          /\ \A j \in RowsOf(mirror, a) :
                TextCents(mirror.rows[j].balance) # Cents(objs[a].balance)

(* C22: calculate_interest raises the invalid-category error when the      *)
(* account is not a Savings account, whatever the rate and the months, and *)
(* the invalid-rate error when it is one and annual_rate <= 0 or           *)
(* months <= 0; either way no balance, log or mirror row changes.          *)
C22_InterestChecksCategoryThenRate ==
    [][By("calculate_interest") =>
          \A a \in DOMAIN objs, annual_rate \in AnnualRates, months \in MonthCounts :
              CalculateInterest(a, annual_rate, months, Reliable)
              => /\ objs[a].account_type # "Savings" => Rejected("InvalidCategory")
                 /\ (objs[a].account_type = "Savings" /\ (annual_rate <= 0 \/ months <= 0))
                       => Rejected("InvalidRate")]_vars

C22_Witness ==
    /\ last = Call("calculate_interest", "InvalidCategory")
    /\ \E a \in DOMAIN objs : ~Absent(a) /\ objs[a].account_type = "Checking"
    /\ \A a \in DOMAIN objs : objs[a].account_type # "Savings"

(* C23: for every Savings account with a balance >= 0, every               *)
(* annual_rate > 0 and every months > 0, calculate_interest succeeds: the  *)
(* balance grows by balance * (annual_rate / 12) * months and one Deposit  *)
(* entry of that amount is appended to the log.                            *)
C23_InterestIsDepositedOnAnyBalance ==
    [][By("calculate_interest") =>
          \A a \in DOMAIN objs, annual_rate \in AnnualRates, months \in MonthCounts :
              (/\ objs[a].account_type = "Savings"
               /\ objs[a].balance >= 0
               /\ annual_rate > 0
               /\ months > 0
               /\ CalculateInterest(a, annual_rate, months, Reliable))
              => LET interest == objs[a].balance * (annual_rate \div 12) * months
                 IN  /\ last'.err = "none"
                     /\ objs'[a].balance = objs[a].balance + interest
                     /\ Gained(objs[a].transactions, objs'[a].transactions, 1)
                     /\ Last(objs'[a].transactions).transaction_type = "Deposit"
                     /\ Last(objs'[a].transactions).amount = interest]_vars

(* C24: a transfer request that names an unknown source id or an unknown   *)
(* target id ends with the account-not-found error and changes no balance, *)
(* no log and no row of the mirror; the source is not debited when only    *)
(* the target id is unknown.                                               *)
C24_TransferToOrFromUnknownIdChangesNothing ==
    [][By("transfer_money") =>
        ((\E a \in Ids, b \in Ids, amount \in Amounts :
             /\ ~InBank(a) \/ ~InBank(b)
             /\ TransferMoneyOf(a, b, amount, Reliable))
         => /\ Rejected("AccountNotFound")
            /\ \A i \in DOMAIN objs :
                  /\ objs'[i].balance = objs[i].balance
                  /\ objs'[i].transactions = objs[i].transactions
            /\ mirror' = mirror
            /\ accounts' = accounts)]_vars

\* A request whose source is in the bank and whose target is not has been
\* turned down, and the source holds what it was opened with.
C24_Witness ==
    /\ last = Call("transfer_money", "AccountNotFound")
    /\ \E a \in DOMAIN objs :
          /\ InBank(a)
          /\ objs[a].balance = objs[a].initial_balance
          /\ objs[a].balance >= 50
          /\ objs[a].transactions = <<>>
    /\ Len(accounts) = 1

(* C25: if the mirror does not exist when a mutator of an account resyncs, *)
(* the mirror is created with the header row only, and after the resync it *)
(* holds the header and exactly one row, that of the account; the mutator  *)
(* does not fail for the missing file.                                     *)
C25_MissingMirrorIsCreatedByTheResync ==
    [][(By("deposit") \/ By("withdraw")) =>
        \A a \in DOMAIN objs, amount \in Amounts :
            (/\ ~mirror.exists
             /\ Acted
             /\ \/ Deposit(a, amount, Reliable)
                \/ Withdraw(a, amount, Reliable)
                \/ InterfaceDeposit(a, amount)
                \/ InterfaceWithdraw(a, amount))
            => /\ last'.err = "none"
               /\ mirror' = ExportBalanceUpdate(objs'[a], File(<<>>))
               /\ mirror' = File(<<NewRow(objs'[a])>>)]_vars

\* The errors the operations of the bank and of its accounts raise.
CoreErrors == {"InvalidAmount", "InsufficientFunds", "AccountNotFound", "InvalidCategory"}

(* C26: in the menu loop every error a core operation raises (invalid      *)
(* amount, insufficient funds, account not found, invalid category on      *)
(* create) is reported and the loop is back at its prompt; the loop is     *)
(* left only by choice 12.                                                 *)
C26_CoreErrorsReturnToTheMenu ==
    /\ last.err \in CoreErrors => InMenu
    /\ ~InMenu => last.op = "exit"

\* The bank was constructed, create_account was then called twice with
\* success, and nothing else was changed: three calls acted, of which one
\* loaded the initial accounts and two made one account each.
TwoCreatesOnANewBank ==
    /\ nOps = 3
    /\ nextId = InitialAccountCount + 3

(* C27: a newly constructed Bank on which create_account was called        *)
(* exactly twice holds exactly two accounts.                               *)
C27_NewBankHoldsWhatWasCreated ==
    TwoCreatesOnANewBank => Len(accounts) = 2

(* C28: one call of load_initial_accounts calls create_account exactly 20  *)
(* times, with the type Checking at the even iterations and Savings at the *)
(* odd ones and a balance from 100.00 to 10000.00 each time, and adds      *)
(* exactly 20 accounts to the bank.                                        *)
C28_LoadCreatesTwentyAlternatingAccounts ==
    [][By("load_initial_accounts") =>
        \A seed \in Seeds :
            LoadInitialAccounts(seed)
            => /\ nextId' = nextId + 20
               /\ Len(objs') = Len(objs) + 20
               /\ Len(accounts') = Len(accounts) + 20
               /\ \A i \in 0..19 :
                     LET account == objs'[nextId + i]
                     IN  /\ account.account_type = (IF i % 2 = 0 THEN "Checking" ELSE "Savings")
                         /\ account.balance >= 50000
                         /\ account.balance <= 5000000
                         /\ account.transactions = <<>>
                         /\ \E k \in 1..Len(accounts') : accounts'[k] = account.account_id
                         /\ \A k \in 1..Len(accounts) : accounts[k] # account.account_id
               /\ \A k \in 1..Len(accounts) : accounts'[k] = accounts[k]]_vars

\* The constructor has loaded the accounts of an empty bank: twenty, the
\* first a Checking account with 100.00 and the second a Savings account.
C28_Witness ==
    /\ last = Call("load_initial_accounts", "none")
    /\ Len(accounts) = 20
    /\ Len(mirror.rows) = 20
    /\ objs[1].account_type = "Checking"
    /\ objs[1].balance = 50000
    /\ objs[2].account_type = "Savings"
    /\ objs[20].account_type = "Savings"

(* C29: in every log that deposits, withdrawals, transfers and accruals    *)
(* make, an entry names a counterparty exactly when its kind is Transfer   *)
(* Out or Transfer In, and the amount of every entry is above zero.        *)
C29_CounterpartyIffTransferAndAmountPositive ==
    \A a \in DOMAIN objs :
        \A j \in DOMAIN objs[a].transactions :
            LET t == objs[a].transactions[j]
            IN  /\ ~IsNone(t.target_account)
                   <=> t.transaction_type \in {"Transfer Out", "Transfer In"}
                /\ t.amount > 0

\* One account has paid another: the log of the first ends with a Transfer
\* Out that names the second, the log of the second with a Transfer In that
\* names the first.
C29_Witness ==
    \E a \in DOMAIN objs, b \in DOMAIN objs :
        /\ a # b
        /\ objs[a].transactions # <<>>
        /\ objs[b].transactions # <<>>
        /\ Last(objs[a].transactions).transaction_type = "Transfer Out"
        /\ Last(objs[a].transactions).target_account = Some(b)
        /\ Last(objs[b].transactions).transaction_type = "Transfer In"
        /\ Last(objs[b].transactions).target_account = Some(a)

\* What a transfer that is running, or has returned or raised, has done so
\* far, read against the accounts and the mirror its call found.
SourceDebited ==
    objs[last.self].balance = last.objs0[last.self].balance - last.amount

TargetCredited ==
    objs[last.target_account].balance
        = last.objs0[last.target_account].balance + last.amount

TransferOutAppended ==
    /\ Gained(last.objs0[last.self].transactions, objs[last.self].transactions, 1)
    /\ Last(objs[last.self].transactions).transaction_type = "Transfer Out"

TransferInAppended ==
    /\ Gained(last.objs0[last.target_account].transactions,
              objs[last.target_account].transactions, 1)
    /\ Last(objs[last.target_account].transactions).transaction_type = "Transfer In"

SourceResynced ==
    \E j \in RowsOf(mirror, last.self) :
        TextCents(mirror.rows[j].balance)
            = Cents(last.objs0[last.self].balance - last.amount)

TargetResynced ==
    \E j \in RowsOf(mirror, last.target_account) :
        TextCents(mirror.rows[j].balance)
            = Cents(last.objs0[last.target_account].balance + last.amount)

\* The call passes both checks of the transfer.
ChecksPass ==
    /\ last.amount > 0
    /\ last.amount <= last.objs0[last.self].balance

(* C30: within one transfer that succeeds, the source is debited, then the *)
(* target is credited, then the Transfer Out entry is appended, then the   *)
(* Transfer In entry, then the source is resynced, then the target: each   *)
(* of these is done only when those before it are done.  Nothing is        *)
(* written to the sink before both balances and both logs are updated,     *)
(* and nothing is changed before both checks have passed.                  *)
C30_TransferStepsInOrder ==
    last.op = "transfer" =>
        /\ (objs # last.objs0 \/ mirror # last.mirror0)
              => ChecksPass /\ last.line > 114
        /\ mirror # last.mirror0
              => /\ Len(objs[last.self].transactions)
                       > Len(last.objs0[last.self].transactions)
                 /\ Len(objs[last.target_account].transactions)
                       > Len(last.objs0[last.target_account].transactions)
        /\ (ChecksPass /\ last.self # last.target_account)
              => /\ TargetCredited => SourceDebited
                 /\ TransferOutAppended => TargetCredited
                 /\ TransferInAppended => TransferOutAppended
                 /\ SourceResynced => TransferInAppended
                 /\ TargetResynced => SourceResynced
                 /\ mirror # last.mirror0
                       => /\ SourceDebited /\ TargetCredited
                          /\ TransferOutAppended /\ TransferInAppended
                 /\ last.err = "none"
                       => /\ SourceDebited /\ TargetCredited
                          /\ TransferOutAppended /\ TransferInAppended
                          /\ SourceResynced /\ TargetResynced

\* A transfer from one account to another is between its two resyncs: the
\* row of the source shows the debit, the row of the target not yet the
\* credit.
C30_Witness ==
    /\ last.op = "transfer"
    /\ last.err = "running"
    /\ last.self # last.target_account
    /\ SourceDebited /\ TargetCredited
    /\ TransferOutAppended /\ TransferInAppended
    /\ SourceResynced
    /\ ~TargetResynced

\* The mirror shows, for some account of the bank, a balance that is not
\* the balance of the account.
UpdateLost ==
    \E i \in 1..Len(accounts) :
        \E j \in RowsOf(mirror, accounts[i]) :
            TextCents(mirror.rows[j].balance) # Cents(objs[accounts[i]].balance)

\* Both calls of the two callers have returned.
BothReturned ==
    /\ last.op = "deposit"
    /\ \A c \in Callers : last.callers[c].err = "none"

(* C31: with two callers whose calls interleave at the read and the write  *)
(* of the resync, an update can be lost: both calls have returned and the  *)
(* mirror's balance of some account differs from the account's balance.    *)
(* This happens exactly when a caller rewrote the file from a list read    *)
(* before the other caller's rewrite of another account's row; no call     *)
(* fails for it, and the balances in memory hold both deposits.            *)
C31_InterleavedResyncsLoseAnUpdate ==
    BothReturned =>
        LET f1 == last.callers[1]
            f2 == last.callers[2]
        IN  /\ UpdateLost <=> (f1.self # f2.self /\ (f1.stale \/ f2.stale))
            /\ \A a \in DOMAIN objs :
                  objs[a].balance = objs[a].initial_balance
                                    + (IF f1.self = a THEN f1.amount ELSE 0)
                                    + (IF f2.self = a THEN f2.amount ELSE 0)

\* Both deposits have returned, each account holds its deposit, and the
\* mirror shows one of the two accounts without its deposit.
C31_Witness ==
    /\ BothReturned
    /\ UpdateLost
    /\ last.callers[1].self # last.callers[2].self
    /\ \A a \in 1..2 : objs[a].balance = objs[a].initial_balance + 50

\* The step is a call of one of the operations that read.
ByARead ==
    \/ By("get_transaction_history")
    \/ By("filter_transactions")
    \/ By("get_details")
    \/ By("list_accounts")

(* C32: get_transaction_history, filter_transactions, get_details and      *)
(* list_accounts change no balance, log, metadata, entry of the mapping or *)
(* row of the mirror; get_transaction_history returns one record for each  *)
(* entry of the log, in the log's order, and a second call that follows    *)
(* the first with no change in between returns an equal sequence.          *)
C32_ReadsChangeNothing ==
    [][ByARead =>
          /\ objs' = objs
          /\ accounts' = accounts
          /\ mirror' = mirror
          /\ By("get_transaction_history") =>
                LET log == objs[last'.self].transactions
                    history == last'.returned
                IN  /\ Len(history) = Len(log)
                    /\ \A i \in 1..Len(log) :
                          /\ history[i].type = log[i].transaction_type
                          /\ history[i].amount = log[i].amount
                          /\ history[i].target_account = log[i].target_account
                          /\ history[i].transaction_id = log[i].transaction_id
                    /\ (last.op = "get_transaction_history" /\ last.self = last'.self)
                          => last.returned = history]_vars

\* The history of an account with a deposit and a transfer in its log was
\* returned: two records, the deposit first.
C32_Witness ==
    /\ last.op = "get_transaction_history"
    /\ Len(last.returned) = 2
    /\ last.returned[1].type = "Deposit"
    /\ last.returned[2].type \in {"Transfer Out", "Transfer In"}
    /\ Len(objs[last.self].transactions) = 2
    /\ mirror.rows # <<>>

(* C33: Bank.update_account_info(account_id, **fields) given a field name  *)
(* outside first_name, last_name, age, state, job raises an error and      *)
(* applies none of the fields: the metadata of the account and the mirror  *)
(* are as before the call, whatever the order of the fields.               *)
C33_InvalidFieldAppliesNothing ==
    [][By("update_account_info") =>
          \A account_id \in DOMAIN objs, kwargs \in KwargsRequests :
              (/\ InBank(account_id)
               /\ \E i \in 1..Len(kwargs) : kwargs[i][1] \notin valid_fields
               /\ UpdateAccountInfo(account_id, kwargs, Reliable))
              => /\ last'.err = "InvalidField"
                 /\ objs' = objs
                 /\ mirror' = mirror]_vars

(* C34: a transfer from an account to itself, A.transfer(A, x) with        *)
(* 0 < x <= A.balance, is accepted: A.balance is unchanged, A's log gains  *)
(* one Transfer Out entry followed by one Transfer In entry, both of       *)
(* amount x and with A's own id as counterparty, and the balance is still  *)
(* the initial balance plus the signed sum of the log.                     *)
C34_SelfTransferIsAccepted ==
    [][By("transfer") =>
          \A a \in DOMAIN objs, amount \in Amounts :
              (/\ 0 < amount
               /\ amount <= objs[a].balance
               /\ Transfer(a, a, amount, Reliable))
              => LET before == objs[a].transactions
                     after == objs'[a].transactions
                 IN  /\ last'.err = "none"
                     /\ objs'[a].balance = objs[a].balance
                     /\ Gained(before, after, 2)
                     /\ after[Len(before) + 1].transaction_type = "Transfer Out"
                     /\ after[Len(before) + 2].transaction_type = "Transfer In"
                     /\ \A j \in {Len(before) + 1, Len(before) + 2} :
                           /\ after[j].amount = amount
                           /\ after[j].target_account = Some(objs[a].account_id)
                     /\ objs'[a].balance
                           = objs'[a].initial_balance + SignedSum(after)
                     /\ \A c \in DOMAIN objs : c # a => objs'[c] = objs[c]]_vars

\* An account has paid itself: its log is a Transfer Out and a Transfer In
\* that name the account, and its balance is the one it was opened with.
C34_Witness ==
    /\ last = Call("transfer", "none")
    /\ \E a \in DOMAIN objs :
          /\ Len(objs[a].transactions) = 2
          /\ objs[a].transactions[1].transaction_type = "Transfer Out"
          /\ objs[a].transactions[2].transaction_type = "Transfer In"
          /\ objs[a].transactions[1].target_account = Some(a)
          /\ objs[a].transactions[2].target_account = Some(a)
          /\ objs[a].balance = objs[a].initial_balance
          /\ objs[a].balance >= 50

\* The sum of the balances of the accounts of the mapping accts.
RECURSIVE LedgerSum(_, _)
LedgerSum(accts, os) ==
    IF accts = <<>> THEN 0
    ELSE os[Head(accts)].balance + LedgerSum(Tail(accts), os)

(* C35: a transfer between two accounts of the bank leaves the sum of the  *)
(* balances of all accounts of the bank unchanged; a deposit raises that   *)
(* sum by its amount (an accrual deposits its interest) and a withdrawal   *)
(* lowers it by its amount; no other operation on the accounts that are    *)
(* there, and no call that raises, changes it.                             *)
C35_TransferKeepsTheSumOfBalances ==
    [][accounts' = accounts =>
          LET before == LedgerSum(accounts, objs)
              after == LedgerSum(accounts', objs')
          IN  /\ By("transfer") =>
                    \A a \in DOMAIN objs, b \in DOMAIN objs, amount \in Amounts :
                        (InBank(a) /\ InBank(b) /\ Transfer(a, b, amount, Reliable))
                        => after = before
              /\ By("deposit") =>
                    \A a \in DOMAIN objs, amount \in Amounts :
                        (InBank(a) /\ Deposit(a, amount, Reliable) /\ Acted)
                        => after = before + amount
              /\ By("withdraw") =>
                    \A a \in DOMAIN objs, amount \in Amounts :
                        (InBank(a) /\ Withdraw(a, amount, Reliable) /\ Acted)
                        => after = before - amount
              /\ By("calculate_interest") =>
                    \A a \in DOMAIN objs, annual_rate \in AnnualRates, months \in MonthCounts :
                        (InBank(a) /\ CalculateInterest(a, annual_rate, months, Reliable) /\ Acted)
                        => after = before + Interest(objs[a], annual_rate, months)
              /\ (last'.op \notin {"deposit", "withdraw", "calculate_interest"}
                  \/ last'.err # "none")
                    => after = before]_vars

\* Money has moved between two accounts of the bank, and the sum of the
\* balances is the sum of what the accounts were opened with.
C35_Witness ==
    /\ last = Call("transfer", "none")
    /\ Len(accounts) = 2
    /\ \E a \in DOMAIN objs, b \in DOMAIN objs :
          /\ InBank(a) /\ InBank(b)
          /\ objs[a].balance = objs[a].initial_balance - 50
          /\ objs[b].balance = objs[b].initial_balance + 50
          /\ LedgerSum(accounts, objs) = objs[a].initial_balance + objs[b].initial_balance

\* The mirror shows the balance the account had when the transfer was
\* called.
SourceAsBefore ==
    \E j \in RowsOf(mirror, last.self) :
        TextCents(mirror.rows[j].balance) = Cents(last.objs0[last.self].balance)

TargetAsBefore ==
    \E j \in RowsOf(mirror, last.target_account) :
        TextCents(mirror.rows[j].balance)
            = Cents(last.objs0[last.target_account].balance)

(* C36: every state of the mirror written during a transfer between two    *)
(* accounts of the bank shows either the balances both accounts had before *)
(* the transfer or the balances both have after it, never the debited      *)
(* balance of the source with the balance of the target not yet credited.  *)
C36_MirrorShowsBothSidesOrNone ==
    (last.op = "transfer" /\ last.self # last.target_account /\ ChecksPass)
        => \/ SourceAsBefore /\ TargetAsBefore
           \/ SourceResynced /\ TargetResynced

\* The ids of the rows of the mirror, and the ids of the accounts of the
\* bank.
MirrorIds == {mirror.rows[j].account_id : j \in 1..Len(mirror.rows)}

LedgerIds == {accounts[i] : i \in 1..Len(accounts)}

(* C37: once an account is deleted from the bank, no later operation puts  *)
(* a row of its id back into the mirror: after a deposit, a withdrawal, an *)
(* update_info or a transfer made through an object obtained before the    *)
(* deletion, the ids of the mirror are the ids of the bank.                *)
C37_DeletedAccountStaysOutOfTheMirror ==
    MirrorIds = LedgerIds

(* C38: constructing BankCLI seeds its bank exactly once: before the first *)
(* choice of the menu is read the bank holds exactly 20 accounts and the   *)
(* mirror 20 rows.                                                         *)
C38_ShellSeedsItsBankOnce ==
    (ShellConstructed /\ last.op = "load_initial_accounts")
        => /\ Len(accounts) = InitialAccountCount
           /\ Len(mirror.rows) = InitialAccountCount

====
